---- MODULE Spec2Model ----
(***************************************************************************)
(* avm: the resolution engine (agents.js) and the install store            *)
(* (install.js, state.js).                                                 *)
(*                                                                         *)
(* A JavaScript string is a tuple of one-character strings, so that trim,  *)
(* toLowerCase, lastIndexOf, split and path.join are computed character by *)
(* character.  null and undefined are the one value Null.                  *)
(***************************************************************************)
EXTENDS Integers, Sequences, FiniteSets, TLC

VARIABLES
  agentArg,    \* resolveTarget: the CLI agent spec, a string or Null
  cliName,     \* the name the user typed inside agentArg (Null: none)
  config,      \* resolveTarget: the loaded project config {default, agents}
  state,       \* resolveTarget: the loaded global state {current}
  overrides,   \* resolveTarget: {packageOverride, argsOverride}
  result,      \* what resolveTarget returned or threw
  fs,          \* the directories on disk: path -> [meta, content]
  calls,       \* the latest ensureInstalled calls, newest first
  clock,       \* the time, in installations stamped so far
  pc,          \* which operations are under study
  stateFile,   \* what ~/.avm/state.json holds
  configFiles, \* the avm.config.json files: directory -> what the file holds
  op,          \* the latest state operation or command, with what it found
  written,     \* per top-level key, the value writeState last gave it
  env,         \* the environment variables avm reads
  queries,     \* the times of the update check's registry queries, newest first
  running      \* the ensureInstalled and writeState calls in progress, by process

vars == <<agentArg, cliName, config, state, overrides, result, fs, calls, clock,
          pc, stateFile, configFiles, op, written, env, queries, running>>

commandVars == <<stateFile, configFiles, op, written>>

wrapperVars == <<env, queries>>

stepVars == <<running>>

----------------------------------------------------------------------------
(* JavaScript values *)

Null == <<"null">>
EmptyString == <<>>

\* JavaScript truthiness of a string-or-null value: x || y takes y for null,
\* undefined and ''.
Truthy(v) == v # Null /\ v # EmptyString

Or2(a, b) == IF Truthy(a) THEN a ELSE b

WhiteSpace == {" ", "\t"}

UpperChars == <<"A","B","C","D","E","F","G","H","I","J","K","L","M",
                "N","O","P","Q","R","S","T","U","V","W","X","Y","Z">>
LowerChars == <<"a","b","c","d","e","f","g","h","i","j","k","l","m",
                "n","o","p","q","r","s","t","u","v","w","x","y","z">>

ToLowerChar(c) ==
  IF \E i \in DOMAIN UpperChars : UpperChars[i] = c
  THEN LowerChars[CHOOSE i \in DOMAIN UpperChars : UpperChars[i] = c]
  ELSE c

\* String.prototype.toLowerCase
RECURSIVE ToLowerCase(_)
ToLowerCase(s) ==
  IF s = <<>> THEN <<>> ELSE <<ToLowerChar(Head(s))>> \o ToLowerCase(Tail(s))

RECURSIVE TrimStart(_)
TrimStart(s) ==
  IF s # <<>> /\ Head(s) \in WhiteSpace THEN TrimStart(Tail(s)) ELSE s

RECURSIVE TrimEnd(_)
TrimEnd(s) ==
  IF s # <<>> /\ s[Len(s)] \in WhiteSpace
  THEN TrimEnd(SubSeq(s, 1, Len(s) - 1))
  ELSE s

\* String.prototype.trim
Trim(s) == TrimEnd(TrimStart(s))

\* A search that stops at the first occurrence (indexOf).
LastIndexOf_First(s, c) ==
  IF \E i \in DOMAIN s : s[i] = c
  THEN (CHOOSE i \in DOMAIN s : s[i] = c /\ \A j \in DOMAIN s : s[j] = c => i <= j) - 1
  ELSE -1

\* String.prototype.lastIndexOf, 0-based, -1 when absent
LastIndexOf(s, c) ==
  IF \E i \in DOMAIN s : s[i] = c
  THEN (CHOOSE i \in DOMAIN s : s[i] = c /\ \A j \in DOMAIN s : s[j] = c => j <= i) - 1
  ELSE -1

\* String.prototype.slice(from, to) with 0-based bounds inside the string
Slice(s, from, to) == SubSeq(s, from + 1, to)

----------------------------------------------------------------------------
(* agents.js *)

codex == <<"c","o","d","e","x">>
claude == <<"c","l","a","u","d","e">>
gemini == <<"g","e","m","i","n","i">>

SUPPORTED_AGENTS == {codex, claude, gemini}

PkgCodex == <<"@","o","p","e","n","a","i","/","c","o","d","e","x">>
PkgClaude == <<"@","a","n","t","h","r","o","p","i","c","-","a","i","/",
               "c","l","a","u","d","e","-","c","o","d","e">>
PkgGemini == <<"@","g","o","o","g","l","e","/","g","e","m","i","n","i","-","c","l","i">>

DEFAULT_PACKAGES == (codex :> PkgCodex) @@ (claude :> PkgClaude) @@ (gemini :> PkgGemini)

latest == <<"l","a","t","e","s","t">>

Err(e) == [kind |-> "error", error |-> e]
Ok(t) == [kind |-> "target", target |-> t]
NoResult == [kind |-> "none"]

\* A normalization that forgets to trim.
normalizeAgentName_NoTrim(name) == ToLowerCase(Or2(name, EmptyString))

normalizeAgentName(name) == ToLowerCase(Trim(Or2(name, EmptyString)))

\* A package chain that asks the saved state before the project config.
resolvePackageName_StateFirst(name, packageOverride, configPackage, statePackage) ==
  IF Truthy(packageOverride) THEN Ok(packageOverride)
  ELSE IF Truthy(statePackage) THEN Ok(statePackage)
  ELSE IF Truthy(configPackage) THEN Ok(configPackage)
  ELSE IF name \in DOMAIN DEFAULT_PACKAGES THEN Ok(DEFAULT_PACKAGES[name])
  ELSE Err("NoPackageConfigured")

\* The target, or the error thrown when no source names a package.
resolvePackageName(name, packageOverride, configPackage, statePackage) ==
  IF Truthy(packageOverride) THEN Ok(packageOverride)
  ELSE IF Truthy(configPackage) THEN Ok(configPackage)
  ELSE IF Truthy(statePackage) THEN Ok(statePackage)
  ELSE IF name \in DOMAIN DEFAULT_PACKAGES /\ Truthy(DEFAULT_PACKAGES[name])
       THEN Ok(DEFAULT_PACKAGES[name])
  ELSE Err("NoPackageConfigured")

\* [name, version]; name = Null stands for the null return, version = Null for
\* a result without a version.
parseAgentSpec(input) ==
  IF ~Truthy(input) THEN [name |-> Null, version |-> Null]
  ELSE LET trimmed == Trim(input)
           atIndex == LastIndexOf(trimmed, "@")
       IN IF trimmed = EmptyString THEN [name |-> Null, version |-> Null]
          ELSE IF atIndex > 0
          THEN LET name == normalizeAgentName(Slice(trimmed, 0, atIndex))
                   version == Slice(trimmed, atIndex + 1, Len(trimmed))
               IN IF name = EmptyString THEN [name |-> Null, version |-> Null]
                  ELSE IF version = EmptyString THEN [name |-> name, version |-> Null]
                  ELSE [name |-> name, version |-> version]
          ELSE LET name == normalizeAgentName(trimmed)
               IN IF name = EmptyString THEN [name |-> Null, version |-> Null]
                  ELSE [name |-> name, version |-> Null]

EmptySection == [package |-> Null, version |-> Null, args |-> Null]

\* cur?.f
StateField(cur, f) == IF cur = <<>> THEN Null ELSE cur[1][f]

\* A lookup that takes state.current whatever tool it names.
CurrentForAgent_AnyTool(st, name) == st.current

\* state.current of a state whose current tool is `name`, else null.
CurrentForAgent(st, name) ==
  IF st.current # <<>> /\ normalizeAgentName(st.current[1].name) = name
  THEN st.current
  ELSE <<>>

\* A name chain that asks the project config before the command line.
ResolveRawName_ConfigFirst(parsed, cfg, st) ==
  Or2(Or2(cfg.default, parsed.name), StateField(st.current, "name"))

\* agents.js line 69: the first truthy of the three name sources.
ResolveRawName(parsed, cfg, st) ==
  Or2(Or2(parsed.name, cfg.default), StateField(st.current, "name"))

\* A version chain that asks the saved state before the project config.
ResolveVersion_StateFirst(parsed, fromConfig, currentForAgent) ==
  Or2(Or2(Or2(parsed.version, StateField(currentForAgent, "version")),
          fromConfig.version), latest)

\* agents.js lines 88-92
ResolveVersion(parsed, fromConfig, currentForAgent) ==
  Or2(Or2(Or2(parsed.version, fromConfig.version),
          StateField(currentForAgent, "version")), latest)

\* An args chain that gives no default args to an overridden package.
ResolveArgs_NoneForOverriddenPackage(ov, fromConfig, currentForAgent) ==
  IF Truthy(ov.packageOverride) THEN EmptyString
  ELSE Or2(Or2(Or2(ov.argsOverride, fromConfig.args),
               StateField(currentForAgent, "args")), EmptyString)

\* An args chain that asks the project config before the override.
ResolveArgs_ConfigFirst(ov, fromConfig, currentForAgent) ==
  Or2(Or2(Or2(fromConfig.args, ov.argsOverride),
          StateField(currentForAgent, "args")), EmptyString)

\* agents.js line 93
ResolveArgs(ov, fromConfig, currentForAgent) ==
  Or2(Or2(Or2(ov.argsOverride, fromConfig.args),
          StateField(currentForAgent, "args")), EmptyString)

FromConfig(cfg, name) ==
  IF name \in DOMAIN cfg.agents THEN cfg.agents[name] ELSE EmptySection

resolveTarget(arg, cfg, st, ov) ==
  LET parsed == parseAgentSpec(arg)
      rawName == ResolveRawName(parsed, cfg, st)
      name == normalizeAgentName(rawName)
  IN IF name = EmptyString THEN Err("NoAgentSpecified")
     ELSE IF name \notin SUPPORTED_AGENTS THEN Err("UnsupportedAgent")
     ELSE
       LET fromConfig == FromConfig(cfg, name)
           currentForAgent == CurrentForAgent(st, name)
           packageName == resolvePackageName(name, ov.packageOverride,
                            fromConfig.package, StateField(currentForAgent, "package"))
           version == ResolveVersion(parsed, fromConfig, currentForAgent)
           args == ResolveArgs(ov, fromConfig, currentForAgent)
       IN IF packageName.kind = "error" THEN packageName
          ELSE Ok([name |-> name, package |-> packageName.target,
                   version |-> version, args |-> args])

----------------------------------------------------------------------------
(* state.js and install.js: the install store *)

\* A path is the directory it denotes: the tuple of its segments from the root,
\* as path.join leaves them after normalization (POSIX separators).
AVM_HOME == << <<"h","o","m","e">>, <<".","a","v","m">> >>
AGENTS_DIR == AVM_HOME \o << <<"a","g","e","n","t","s">> >>

\* name.replace(/[\\/]/g, '__')
RECURSIVE sanitizeName(_)
sanitizeName(name) ==
  IF name = <<>> THEN <<>>
  ELSE (IF Head(name) \in {"/", "\\"} THEN <<"_","_">> ELSE <<Head(name)>>)
       \o sanitizeName(Tail(name))

\* The segments of a string between its '/' characters (empty ones included).
RECURSIVE SplitSlash(_)
SplitSlash(s) ==
  IF \A i \in DOMAIN s : s[i] # "/" THEN <<s>>
  ELSE LET k == CHOOSE i \in DOMAIN s : s[i] = "/" /\ \A j \in 1..(i - 1) : s[j] # "/"
       IN <<SubSeq(s, 1, k - 1)>> \o SplitSlash(SubSeq(s, k + 1, Len(s)))

\* path.normalize on the segments of an absolute path: '' and '.' are dropped,
\* '..' drops the segment before it and stays at the root.
RECURSIVE NormalizeSegments(_, _)
NormalizeSegments(done, rest) ==
  IF rest = <<>> THEN done
  ELSE LET seg == Head(rest)
       IN IF seg = <<>> \/ seg = <<".">> THEN NormalizeSegments(done, Tail(rest))
          ELSE IF seg = <<".",".">>
          THEN NormalizeSegments(IF done = <<>> THEN done
                                 ELSE SubSeq(done, 1, Len(done) - 1), Tail(rest))
          ELSE NormalizeSegments(done \o <<seg>>, Tail(rest))

\* path.join(dir, part)
PathJoin(dir, part) == NormalizeSegments(dir, SplitSlash(part))

agentDir(name) == PathJoin(AGENTS_DIR, sanitizeName(name))

installDir(name, version) == PathJoin(agentDir(name), version)

IsPrefix(p, q) == Len(p) <= Len(q) /\ SubSeq(q, 1, Len(p)) = p

\* What npm has put under a directory: the specifiers installed there, and
\* whether a failed install left debris.
NoContent == [specs |-> {}, partial |-> FALSE]
EmptyDir == [meta |-> <<>>, content |-> NoContent]

\* fs.mkdir(p, {recursive: true})
MkdirP(f, p) ==
  [q \in DOMAIN f \cup {SubSeq(p, 1, n) : n \in 0..Len(p)} |->
     IF q \in DOMAIN f THEN f[q] ELSE EmptyDir]

\* A removal that removes nothing.
RmRf_Nothing(f, p) == f

\* fs.rm(p, {recursive: true, force: true})
RmRf(f, p) == [q \in {r \in DOMAIN f : ~IsPrefix(p, r)} |-> f[q]]

\* pathExists
pathExists(f, p) == p \in DOMAIN f

\* What a .meta.json that cannot be read or parsed holds: the error reading it
\* raises.
SyntaxError == [error |-> "SyntaxError"]
EACCES == [error |-> "EACCES"]
ReadErrors == {SyntaxError, EACCES}

\* A read that takes every failure for a missing file.
readJson_FallbackOnAnyError(f, p) ==
  IF p \in DOMAIN f /\ f[p].meta # <<>> /\ f[p].meta[1] \notin ReadErrors
  THEN [threw |-> FALSE, value |-> f[p].meta]
  ELSE [threw |-> FALSE, value |-> <<>>]

\* readJson(join(p, '.meta.json'), null) || null: the value is <<>> (no file,
\* ENOENT) or <<record>>; any other failure is thrown.
readJson(f, p) ==
  IF p \notin DOMAIN f \/ f[p].meta = <<>>
  THEN [threw |-> FALSE, value |-> <<>>]
  ELSE IF f[p].meta[1] \in ReadErrors
       THEN [threw |-> TRUE, error |-> f[p].meta[1]]
       ELSE [threw |-> FALSE, value |-> f[p].meta]

\* A write that makes the directory and leaves no record in it.
WriteMeta_Nothing(f, p, meta) == MkdirP(f, p)

\* A write that drops the default args from the record.
WriteMeta_NoArgs(f, p, meta) ==
  LET g == MkdirP(f, p) IN [g EXCEPT ![p].meta = <<[meta EXCEPT !.args = EmptyString]>>]

\* writeJson(join(p, '.meta.json'), meta): mkdir -p of the directory, then the file
WriteMeta(f, p, meta) ==
  LET g == MkdirP(f, p) IN [g EXCEPT ![p].meta = <<meta>>]

\* `${target.package}@${target.version}`
PkgSpec(target) == target.package \o <<"@">> \o target.version

\* How a spawned process ends: it closes with an exit code, or it cannot be
\* launched and the child emits 'error'.
Exit0 == [event |-> "close", code |-> 0]
Exit1 == [event |-> "close", code |-> 1]
SpawnError == [event |-> "error", err |-> [error |-> "ENOENT"]]
InstallerRuns == {Exit0, Exit1, SpawnError}

\* A runCommand that resolves whatever the exit code.
runCommand_IgnoreCode(command, args, run) ==
  IF run.event = "error"
  THEN [rejected |-> TRUE, error |-> run.err]
  ELSE [rejected |-> FALSE]

\* runCommand: resolves on exit code 0; on any other code rejects with the
\* error whose message is `${command} ${args.join(' ')} exited with code
\* ${code}`, held as its three parts; on 'error' rejects with the error the
\* child emitted.
runCommand(command, args, run) ==
  IF run.event = "error"
  THEN [rejected |-> TRUE, error |-> run.err]
  ELSE IF run.code = 0
       THEN [rejected |-> FALSE]
       ELSE [rejected |-> TRUE,
             error |-> [command |-> command, args |-> args, code |-> run.code]]

\* The argument list npmInstall builds (no registry).
NpmArgs(p, pkgSpec) ==
  <<"install", "--prefix", p, "--no-package-lock", "--no-progress", "--no-fund",
    pkgSpec>>

\* npmInstall: mkdir -p the path, then npm install --prefix path pkgSpec.  An
\* npm that exits with code zero has added the package to what the directory
\* holds, one that exits with another code leaves debris, one that could not be
\* launched leaves the directory as mkdir made it.
npmInstall(f, p, pkgSpec, run) ==
  LET g == MkdirP(f, p)
      done == runCommand("npm", NpmArgs(p, pkgSpec), run)
  IN [fs |-> [g EXCEPT ![p].content =
                IF run.event = "error" THEN @
                ELSE IF run.code = 0 THEN [@ EXCEPT !.specs = @ \cup {pkgSpec}]
                ELSE [@ EXCEPT !.partial = TRUE]],
      done |-> done]

\* A cache test that trusts any record whose version matches.
NeedsReinstall_NoPackageCheck(hasInstall, existingMeta, target) ==
  \/ ~hasInstall
  \/ existingMeta = <<>>
  \/ existingMeta[1].version # target.version

\* A cache test that trusts any record whose package matches.
NeedsReinstall_NoVersionCheck(hasInstall, existingMeta, target) ==
  \/ ~hasInstall
  \/ existingMeta = <<>>
  \/ existingMeta[1].package # target.package

\* A cache test that reinstalls whenever the target carries default args.
NeedsReinstall_WhenArgs(hasInstall, existingMeta, target) ==
  \/ ~hasInstall
  \/ existingMeta = <<>>
  \/ existingMeta[1].package # target.package
  \/ existingMeta[1].version # target.version
  \/ target.args # EmptyString

\* A cache test that always refreshes the latest slot.
NeedsReinstall_LatestRefreshes(hasInstall, existingMeta, target) ==
  \/ ~hasInstall
  \/ existingMeta = <<>>
  \/ existingMeta[1].package # target.package
  \/ existingMeta[1].version # target.version
  \/ target.version = latest

\* install.js lines 97-101
NeedsReinstall(hasInstall, existingMeta, target) ==
  \/ ~hasInstall
  \/ existingMeta = <<>>
  \/ existingMeta[1].package # target.package
  \/ existingMeta[1].version # target.version

\* A merge that takes the target's args even when they are empty.
MergedMeta_TargetArgs(existing, target) ==
  [existing EXCEPT !.name = target.name,
                   !.package = target.package,
                   !.version = target.version,
                   !.args = target.args]

\* install.js lines 115-121
MergedMeta(existing, target) ==
  [existing EXCEPT !.name = target.name,
                   !.package = target.package,
                   !.version = target.version,
                   !.args = Or2(Or2(target.args, existing.args), EmptyString)]

\* ensureInstalled(target) on the disk f, at time now, with an installer that
\* ends as `run` says: the disk it leaves and the record of the call.
ensureInstalled(f, target, run, now) ==
  LET f0 == MkdirP(f, AGENTS_DIR)
      installPath == installDir(target.name, target.version)
      hasInstall == pathExists(f0, installPath)
      read == IF hasInstall THEN readJson(f0, installPath)
              ELSE [threw |-> FALSE, value |-> <<>>]
  IN IF read.threw
     THEN [fs |-> f0,
           call |-> [target |-> target, path |-> installPath,
                     hasInstall |-> hasInstall, existingMeta |-> <<>>,
                     outcome |-> "ReadError", error |-> <<read.error>>,
                     meta |-> <<>>, removed |-> FALSE, installs |-> 0,
                     run |-> <<>>, wrote |-> FALSE]]
     ELSE
     LET existingMeta == read.value
         needsReinstall == NeedsReinstall(hasInstall, existingMeta, target)
         pre == [target |-> target, path |-> installPath,
                 hasInstall |-> hasInstall, existingMeta |-> existingMeta]
     IN IF needsReinstall
        THEN LET f1 == IF hasInstall THEN RmRf(f0, installPath) ELSE f0
                 npm == npmInstall(f1, installPath, PkgSpec(target), run)
                 meta == [name |-> target.name, package |-> target.package,
                          version |-> target.version, args |-> target.args,
                          installedAt |-> now]
             IN IF ~npm.done.rejected
                THEN [fs |-> WriteMeta(npm.fs, installPath, meta),
                      call |-> pre @@ [outcome |-> "ok", error |-> <<>>,
                                       meta |-> <<meta>>,
                                       removed |-> hasInstall, installs |-> 1,
                                       run |-> <<run>>, wrote |-> TRUE]]
                ELSE [fs |-> npm.fs,
                      call |-> pre @@ [outcome |-> "InstallFailure",
                                       error |-> <<npm.done.error>>,
                                       meta |-> <<>>,
                                       removed |-> hasInstall, installs |-> 1,
                                       run |-> <<run>>, wrote |-> FALSE]]
        ELSE LET mergedMeta == MergedMeta(existingMeta[1], target)
                 changed == \/ mergedMeta.name # existingMeta[1].name
                            \/ mergedMeta.package # existingMeta[1].package
                            \/ mergedMeta.version # existingMeta[1].version
                            \/ mergedMeta.args # existingMeta[1].args
             IN [fs |-> IF changed THEN WriteMeta(f0, installPath, mergedMeta) ELSE f0,
                 call |-> pre @@ [outcome |-> "ok", error |-> <<>>,
                                  meta |-> <<mergedMeta>>,
                                  removed |-> FALSE, installs |-> 0,
                                  run |-> <<>>, wrote |-> changed]]

----------------------------------------------------------------------------
(* install.js: ensureInstalled, one await at a time *)

\* The processes that may run avm at the same time.
Procs == {1, 2}

Idle == [at |-> "idle"]

\* The call of process r is over: it returned or threw, or none was made.
Finished(r) == r.at \in {"idle", "returned", "threw"}

\* ensureInstalled up to the cache test (lines 91-101): ensureBaseDirs,
\* pathExists, readJson, needsReinstall.  The disk it leaves and what the call
\* holds in its locals from here on.
LookStep(f, target, run) ==
  LET f0 == MkdirP(f, AGENTS_DIR)
      installPath == installDir(target.name, target.version)
      hasInstall == pathExists(f0, installPath)
      read == IF hasInstall THEN readJson(f0, installPath)
              ELSE [threw |-> FALSE, value |-> <<>>]
      existingMeta == IF read.threw THEN <<>> ELSE read.value
  IN [fs |-> f0,
      call |-> [at |-> IF read.threw THEN "threw" ELSE "looked",
                target |-> target, run |-> run, path |-> installPath,
                hasInstall |-> hasInstall, existingMeta |-> existingMeta,
                needsReinstall |-> /\ ~read.threw
                                   /\ NeedsReinstall(hasInstall, existingMeta, target),
                outcome |-> IF read.threw THEN "ReadError" ELSE "pending",
                steps |-> <<"look">>, spawned |-> <<>>, meta |-> <<>>,
                raced |-> FALSE, disturbed |-> FALSE]]

\* A call that writes the record without waiting for the installer to end.
NextStep_NoWait(r) ==
  CASE r.at = "looked" /\ r.needsReinstall /\ r.hasInstall -> "rm"
    [] r.at = "looked" /\ r.needsReinstall /\ ~r.hasInstall -> "spawn"
    [] r.at = "looked" /\ ~r.needsReinstall -> "reconcile"
    [] r.at = "removed" -> "spawn"
    [] r.at = "installing" -> "write"
    [] r.at = "installed" -> "write"
    [] OTHER -> "none"

\* The statement a call in progress executes next: fs.rm (104), npmInstall's
\* mkdir and spawn (57-72), the installer's end (79-85), writeJson of the fresh
\* record (109-110), or the merge of a cache hit (114-129).
NextStep(r) ==
  CASE r.at = "looked" /\ r.needsReinstall /\ r.hasInstall -> "rm"
    [] r.at = "looked" /\ r.needsReinstall /\ ~r.hasInstall -> "spawn"
    [] r.at = "looked" /\ ~r.needsReinstall -> "reconcile"
    [] r.at = "removed" -> "spawn"
    [] r.at = "installing" -> "close"
    [] r.at = "installed" -> "write"
    [] OTHER -> "none"

\* The call r after the step named s, which brought it to `at`.
Stepped(r, s, at) == [r EXCEPT !.at = at, !.steps = Append(@, s)]

\* The calls once process p's call has become `new` by a step that changed
\* what the path x holds: every other call made for that path has had it
\* changed under it, and an installer running there has had its directory
\* taken away when the step was a removal.
Touched(p, new, x, removal) ==
  [q \in Procs |->
     IF q = p THEN new
     ELSE IF running[q].at # "idle" /\ IsPrefix(x, running[q].path)
     THEN [running[q] EXCEPT !.raced = TRUE,
                             !.disturbed = @ \/ (removal /\ running[q].at = "installing")]
     ELSE running[q]]

----------------------------------------------------------------------------
(* state.js: the global state file *)

\* What state.json holds: nothing (no file), text that is not JSON, the JSON
\* null, or an object, held as the function from its top-level keys to their
\* values.
StateMissing == [kind |-> "missing"]
StateCorrupt == [kind |-> "corrupt"]
StateNull == [kind |-> "null"]
StateJson(o) == [kind |-> "json", obj |-> o]

NoKeys == <<>>

\* readState: (await readJson(STATE_FILE, {})) || {}
readState(sf) ==
  IF sf.kind = "corrupt" THEN [threw |-> TRUE, error |-> SyntaxError]
  ELSE [threw |-> FALSE, value |-> IF sf.kind = "json" THEN sf.obj ELSE NoKeys]

\* A write that keeps nothing of the file it finds.
writeState_Replace(f, sf, patch, now) ==
  [threw |-> FALSE, fs |-> MkdirP(f, AVM_HOME),
   file |-> StateJson(("updatedAt" :> now) @@ patch)]

\* writeState(patch) at time now: {...previous, ...patch, updatedAt}, written
\* after mkdir -p of ~/.avm.
writeState(f, sf, patch, now) ==
  LET previous == readState(sf)
  IN IF previous.threw
     THEN [threw |-> TRUE, error |-> previous.error, fs |-> f, file |-> sf]
     ELSE [threw |-> FALSE, fs |-> MkdirP(f, AVM_HOME),
           file |-> StateJson(("updatedAt" :> now) @@ patch @@ previous.value)]

\* A write that merges the patch into the file as it is when written.
MergeWrite_Fresh(sf, previous, patch, now) ==
  StateJson(("updatedAt" :> now) @@ patch @@ (IF sf.kind = "json" THEN sf.obj ELSE NoKeys))

\* writeState's second half, at time now: next = {...previous, ...patch,
\* updatedAt} is written over the file sf, whatever sf holds by then.
MergeWrite(sf, previous, patch, now) ==
  StateJson(("updatedAt" :> now) @@ patch @@ previous)

----------------------------------------------------------------------------
(* selfUpdate.js: the update check *)

\* UPDATE_CHECK_INTERVAL_MS, twenty-four hours, with the time counted in
\* steps of twelve hours.
UPDATE_CHECK_INTERVAL == 2

\* new Date(t).toISOString(): the text of the time t, to the millisecond.
toISOString(t) == [iso |-> t]

\* Date.parse(text): the time a text written by toISOString names, NaN
\* (<<>>) for a text that names no time.
DateParse(text) == IF "iso" \in DOMAIN text THEN <<text.iso>> ELSE <<>>

\* process.env.X is truthy: the variable is set, and not to the empty string.
EnvTruthy(v) == v # <<>> /\ v[1] # EmptyString

\* The check did nothing: no query, nothing written.
Unnotified(f, sf) ==
  [fs |-> f, stateFile |-> sf, queried |-> FALSE, stamped |-> FALSE]

\* An update check that writes the state file anew, keeping only its own
\* entry.
maybeNotifySelfUpdate_Replace(e, f, sf, now, fetched, io) ==
  IF EnvTruthy(e.AVM_NO_UPDATE_CHECK) THEN Unnotified(f, sf)
  ELSE LET read == readState(sf)
       IN IF read.threw THEN Unnotified(f, sf)
          ELSE LET selfState == IF "self" \in DOMAIN read.value
                                THEN read.value["self"] ELSE NoKeys
                   last == IF "lastUpdateCheck" \in DOMAIN selfState
                           THEN DateParse(selfState["lastUpdateCheck"]) ELSE <<>>
               IN IF last # <<>> /\ now - last[1] < UPDATE_CHECK_INTERVAL
                  THEN Unnotified(f, sf)
                  ELSE LET nextSelfState ==
                             (IF fetched # <<>> THEN "latestVersion" :> fetched[1]
                              ELSE NoKeys)
                             @@ ("lastUpdateCheck" :> toISOString(now))
                             @@ selfState
                           w == IF io = "ok"
                                THEN writeState_Replace(f, sf, "self" :> nextSelfState,
                                                        now)
                                ELSE [threw |-> TRUE, error |-> EACCES,
                                      fs |-> f, file |-> sf]
                       IN [fs |-> w.fs, stateFile |-> w.file, queried |-> TRUE,
                           stamped |-> ~w.threw]

\* An update check that asks the registry and keeps no record of when.
maybeNotifySelfUpdate_NoStamp(e, f, sf, now, fetched, io) ==
  IF EnvTruthy(e.AVM_NO_UPDATE_CHECK) THEN Unnotified(f, sf)
  ELSE LET read == readState(sf)
       IN IF read.threw THEN Unnotified(f, sf)
          ELSE LET selfState == IF "self" \in DOMAIN read.value
                                THEN read.value["self"] ELSE NoKeys
                   last == IF "lastUpdateCheck" \in DOMAIN selfState
                           THEN DateParse(selfState["lastUpdateCheck"]) ELSE <<>>
               IN IF last # <<>> /\ now - last[1] < UPDATE_CHECK_INTERVAL
                  THEN Unnotified(f, sf)
                  ELSE LET nextSelfState ==
                             (IF fetched # <<>> THEN "latestVersion" :> fetched[1]
                              ELSE NoKeys) @@ selfState
                           w == IF io = "ok"
                                THEN writeState(f, sf, "self" :> nextSelfState, now)
                                ELSE [threw |-> TRUE, error |-> EACCES,
                                      fs |-> f, file |-> sf]
                       IN [fs |-> w.fs, stateFile |-> w.file, queried |-> TRUE,
                           stamped |-> ~w.threw]

\* maybeNotifySelfUpdate at time now, in the environment e: fetched is what
\* the registry answered (<<>>: the query failed or named no version), io is
\* "ok" or the error that writing the state file meets.  What it leaves, and
\* whether it asked the registry and recorded that it did.
maybeNotifySelfUpdate(e, f, sf, now, fetched, io) ==
  IF EnvTruthy(e.AVM_NO_UPDATE_CHECK) THEN Unnotified(f, sf)
  ELSE LET read == readState(sf)
       IN IF read.threw THEN Unnotified(f, sf)
          ELSE LET selfState == IF "self" \in DOMAIN read.value
                                THEN read.value["self"] ELSE NoKeys
                   last == IF "lastUpdateCheck" \in DOMAIN selfState
                           THEN DateParse(selfState["lastUpdateCheck"]) ELSE <<>>
               IN IF last # <<>> /\ now - last[1] < UPDATE_CHECK_INTERVAL
                  THEN Unnotified(f, sf)
                  ELSE LET nextSelfState ==
                             (IF fetched # <<>> THEN "latestVersion" :> fetched[1]
                              ELSE NoKeys)
                             @@ ("lastUpdateCheck" :> toISOString(now))
                             @@ selfState
                           w == IF io = "ok"
                                THEN writeState(f, sf, "self" :> nextSelfState, now)
                                ELSE [threw |-> TRUE, error |-> EACCES,
                                      fs |-> f, file |-> sf]
                       IN [fs |-> w.fs, stateFile |-> w.file, queried |-> TRUE,
                           stamped |-> ~w.threw]

NoOp == [name |-> "none"]

\* No state operation and no command yet, no state file, no project config.
NoCommand ==
  /\ stateFile = StateMissing
  /\ configFiles = <<>>
  /\ op = NoOp
  /\ written = NoKeys

\* No update check is switched off by the environment, and none has queried
\* the registry.
NoWrapper ==
  /\ env = [AVM_NO_UPDATE_CHECK |-> <<>>]
  /\ queries = <<>>

\* No call is in progress step by step.
NoneRunning == running = <<>>

----------------------------------------------------------------------------
(* commands.js: the project configuration file *)

ConfigName == <<"a","v","m",".","c","o","n","f","i","g",".","j","s","o","n">>

DefaultKey == <<"d","e","f","a","u","l","t">>

Work == <<"w","o","r","k">>
Proj == <<"p","r","o","j">>

\* process.cwd(): /work/proj
Cwd == <<Work, Proj>>

\* What JSON.parse gives: null, a string, or an object.  The top-level object
\* is the sequence of its entries, in the order of Object.entries; an object
\* inside it is the function from its keys to their string values.
JNull == [t |-> "null"]
JString(str) == [t |-> "string", s |-> str]
JObject(fields) == [t |-> "object", fields |-> fields]
JDoc(entries) == [t |-> "object", entries |-> entries]

Undefined == [t |-> "undefined"]

\* What an avm.config.json holds: text JSON.parse rejects with a message, or
\* text it parses.
InvalidJson(message) == [kind |-> "invalid", message |-> message]
ValidJson(value) == [kind |-> "json", value |-> value]

\* parsed[key]
Prop(parsed, key) ==
  IF \E i \in DOMAIN parsed.entries : parsed.entries[i][1] = key
  THEN parsed.entries[CHOOSE i \in DOMAIN parsed.entries :
                        parsed.entries[i][1] = key][2]
  ELSE Undefined

\* value && typeof value === 'object'
IsObject(v) == v.t = "object"

\* value.f of an object inside the document
Field(v, f) == IF f \in DOMAIN v.fields THEN v.fields[f] ELSE Null

\* A search that returns the farthest directory that holds a file.
RECURSIVE findConfigFile_Farthest(_, _)
findConfigFile_Farthest(files, startDir) ==
  IF startDir = <<>>
  THEN IF <<>> \in DOMAIN files THEN << <<>> >> ELSE <<>>
  ELSE LET above == findConfigFile_Farthest(files, SubSeq(startDir, 1, Len(startDir) - 1))
       IN IF above # <<>> THEN above
          ELSE IF startDir \in DOMAIN files THEN <<startDir>> ELSE <<>>

\* A search that passes over a file that is not JSON.
RECURSIVE findConfigFile_SkipInvalid(_, _)
findConfigFile_SkipInvalid(files, startDir) ==
  IF startDir \in DOMAIN files /\ files[startDir].kind # "invalid"
  THEN <<startDir>>
  ELSE IF startDir = <<>> THEN <<>>
  ELSE findConfigFile_SkipInvalid(files, SubSeq(startDir, 1, Len(startDir) - 1))

\* findConfigFile: <<dir>> for the nearest directory, from startDir up to the
\* root, that holds an avm.config.json; <<>> when none does.
RECURSIVE findConfigFile(_, _)
findConfigFile(files, startDir) ==
  IF startDir \in DOMAIN files THEN <<startDir>>
  ELSE IF startDir = <<>> THEN <<>>
  ELSE findConfigFile(files, SubSeq(startDir, 1, Len(startDir) - 1))

EmptyConfig == [default |-> Null, agents |-> <<>>]

\* The Error thrown from the catch of loadProjectConfig: `Failed to parse
\* ${configPath}: ${err.message}`, held as its two parts.
ConfigParseError(configPath, message) ==
  [threw |-> TRUE,
   error |-> [kind |-> "ConfigParseError", path |-> configPath,
              message |-> message]]

\* The message of assertSupportedAgent's Error.
UnsupportedMessage(name) == [unsupported |-> name]

\* The section loadProjectConfig keeps of an object value.
SectionOf(value) ==
  [package |-> Or2(Or2(Field(value, "package"), Field(value, "pkg")), Null),
   version |-> Or2(Field(value, "version"), Null),
   args |-> Or2(Field(value, "args"), EmptyString)]

\* A loop that takes every key but default for a tool name.
RECURSIVE LoadSections_EveryKey(_, _)
LoadSections_EveryKey(entries, agents) ==
  IF entries = <<>> THEN [threw |-> FALSE, agents |-> agents]
  ELSE LET name == Head(entries)[1]
           value == Head(entries)[2]
           normalizedName == normalizeAgentName(name)
       IN IF name = DefaultKey
          THEN LoadSections_EveryKey(Tail(entries), agents)
          ELSE IF normalizedName \notin SUPPORTED_AGENTS
          THEN [threw |-> TRUE, message |-> UnsupportedMessage(normalizedName)]
          ELSE LoadSections_EveryKey(Tail(entries),
                 (normalizedName :>
                    IF IsObject(value) THEN SectionOf(value)
                    ELSE [package |-> Null, version |-> Null,
                          args |-> EmptyString]) @@ agents)

\* commands.js lines 52-67: the loop over Object.entries(parsed).
RECURSIVE LoadSections(_, _)
LoadSections(entries, agents) ==
  IF entries = <<>> THEN [threw |-> FALSE, agents |-> agents]
  ELSE LET name == Head(entries)[1]
           value == Head(entries)[2]
           normalizedName == normalizeAgentName(name)
       IN IF name = DefaultKey \/ ~IsObject(value) \/ normalizedName = EmptyString
          THEN LoadSections(Tail(entries), agents)
          ELSE IF normalizedName \notin SUPPORTED_AGENTS
          THEN [threw |-> TRUE, message |-> UnsupportedMessage(normalizedName)]
          ELSE LoadSections(Tail(entries),
                            (normalizedName :> SectionOf(value)) @@ agents)

\* loadProjectConfig(cwd): the config and the path of the file it came from
\* (<<>>: none), or the Error thrown.
loadProjectConfig(files, cwd) ==
  LET found == findConfigFile(files, cwd)
  IN IF found = <<>>
     THEN [threw |-> FALSE, config |-> EmptyConfig, path |-> <<>>]
     ELSE
     LET configPath == Append(found[1], ConfigName)
         file == files[found[1]]
     IN IF file.kind = "invalid"
        THEN ConfigParseError(configPath, [syntax |-> file.message])
        ELSE IF file.value = JNull
        THEN ConfigParseError(configPath, [typeError |-> "default"])
        ELSE
        LET parsed == file.value
            d == Prop(parsed, DefaultKey)
            hasDefault == IsObject(d) /\ Truthy(Field(d, "name"))
            normalizedDefault == normalizeAgentName(Field(d, "name"))
        IN IF hasDefault /\ normalizedDefault \notin SUPPORTED_AGENTS
           THEN ConfigParseError(configPath, UnsupportedMessage(normalizedDefault))
           ELSE LET sections == LoadSections(parsed.entries, <<>>)
                IN IF sections.threw
                   THEN ConfigParseError(configPath, sections.message)
                   ELSE [threw |-> FALSE,
                         config |-> [default |-> IF hasDefault
                                                 THEN normalizedDefault
                                                 ELSE Null,
                                     agents |-> sections.agents],
                         path |-> <<configPath>>]

----------------------------------------------------------------------------
(* agents.js: parseArgsString *)

\* String.prototype.split(sep) for a one-character separator: the segments
\* between the separators, empty ones included.
RECURSIVE Split(_, _)
Split(s, sep) ==
  IF \A i \in DOMAIN s : s[i] # sep THEN <<s>>
  ELSE LET i == CHOOSE k \in DOMAIN s :
                  s[k] = sep /\ \A j \in 1..(k - 1) : s[j] # sep
       IN <<SubSeq(s, 1, i - 1)>> \o Split(SubSeq(s, i + 1, Len(s)), sep)

\* .map((part) => part.trim())
RECURSIVE MapTrim(_)
MapTrim(parts) ==
  IF parts = <<>> THEN <<>> ELSE <<Trim(Head(parts))>> \o MapTrim(Tail(parts))

\* .filter(Boolean)
RECURSIVE FilterTruthy(_)
FilterTruthy(parts) ==
  IF parts = <<>> THEN <<>>
  ELSE IF Head(parts) = EmptyString THEN FilterTruthy(Tail(parts))
  ELSE <<Head(parts)>> \o FilterTruthy(Tail(parts))

\* A tokenizer that keeps the empty tokens.
parseArgsString_KeepEmpty(argString) ==
  IF ~Truthy(argString) THEN <<>>
  ELSE MapTrim(Split(argString, " "))

parseArgsString(argString) ==
  IF ~Truthy(argString) THEN <<>>
  ELSE FilterTruthy(MapTrim(Split(argString, " ")))

----------------------------------------------------------------------------
(* install.js: findAgentBinary *)

NodeModules == <<"n","o","d","e","_","m","o","d","u","l","e","s">>
DotBin == <<".","b","i","n">>
BinKey == <<"b","i","n">>

\* What npm left at an install path, as far as findAgentBinary looks: what
\* node_modules/<package>/package.json holds (no file, text that is not JSON,
\* or a JSON value) and which paths exist.
NoDescriptor == [kind |-> "missing"]
Package(descriptor, files) == [descriptor |-> descriptor, files |-> files]

\* binRelative after the try block: the string parsed.bin, or the first value
\* of the mapping parsed.bin; null when the file is missing or not JSON, when
\* it holds null (reading parsed.bin throws), and when there is no bin.
BinRelative(descriptor) ==
  IF descriptor.kind # "json" \/ descriptor.value = JNull THEN Null
  ELSE LET bin == Prop(descriptor.value, BinKey)
       IN IF bin.t = "string" THEN bin.s
          ELSE IF bin.t = "object"
          THEN IF bin.entries = <<>> \/ bin.entries[1][2].t # "string" THEN Null
               ELSE bin.entries[1][2].s
          ELSE Null

\* packageName.includes('/') ? packageName.split('/').pop() : packageName
FallbackName(packageName) ==
  LET parts == SplitSlash(packageName) IN parts[Len(parts)]

\* A lookup whose fallback is named after the whole package identifier.
findAgentBinary_FullName(pk, installPath, packageName) ==
  LET binRelative == BinRelative(pk.descriptor)
      candidate == PathJoin(PathJoin(PathJoin(installPath, NodeModules), packageName),
                            binRelative)
      fallback == PathJoin(PathJoin(PathJoin(installPath, NodeModules), DotBin),
                           packageName)
  IN IF Truthy(binRelative) /\ candidate \in pk.files THEN <<candidate>>
     ELSE IF fallback \in pk.files THEN <<fallback>>
     ELSE <<>>

\* findAgentBinary(installPath, packageName) in an installation that holds pk:
\* <<path>>, or <<>> for null.
findAgentBinary(pk, installPath, packageName) ==
  LET binRelative == BinRelative(pk.descriptor)
      candidate == PathJoin(PathJoin(PathJoin(installPath, NodeModules), packageName),
                            binRelative)
      fallback == PathJoin(PathJoin(PathJoin(installPath, NodeModules), DotBin),
                           FallbackName(packageName))
  IN IF Truthy(binRelative) /\ candidate \in pk.files THEN <<candidate>>
     ELSE IF fallback \in pk.files THEN <<fallback>>
     ELSE <<>>

----------------------------------------------------------------------------
(* commands.js: install, global and run *)

\* The state object as resolveTarget reads it.
StateOf(obj) ==
  [current |-> IF "current" \in DOMAIN obj THEN <<obj["current"]>> ELSE <<>>]

\* A command that has done nothing yet.
Started(name, arg, options, sf) ==
  [name |-> name, agentArg |-> arg, options |-> options, before |-> sf,
   failedAt |-> "none", error |-> <<>>, load |-> <<>>, resolved |-> NoResult,
   ensure |-> <<>>, wroteState |-> FALSE, launched |-> <<>>]

\* The first lines of installAction, globalAction and runAction:
\* loadProjectConfig, readState, resolveTarget.
ResolveFor(files, sf, arg, ov) ==
  LET load == loadProjectConfig(files, Cwd)
  IN IF load.threw
     THEN [failedAt |-> "loadProjectConfig", error |-> <<load.error>>,
           load |-> <<>>, resolved |-> NoResult]
     ELSE LET read == readState(sf)
          IN IF read.threw
             THEN [failedAt |-> "readState", error |-> <<read.error>>,
                   load |-> <<load>>, resolved |-> NoResult]
             ELSE LET res == resolveTarget(arg, load.config, StateOf(read.value), ov)
                  IN [failedAt |-> IF res.kind = "error" THEN "resolveTarget"
                                   ELSE "none",
                      error |-> IF res.kind = "error" THEN <<res.error>> ELSE <<>>,
                      load |-> <<load>>, resolved |-> res]

\* The command record t with the fields of r in place of its own.
With(t, r) == r @@ t

\* In the handlers below, CHOOSE out \in {Body(v) : v \in {x}} : TRUE reads
\* "const v = await x; Body(v)": x is computed once and Body reads its value.

\* An install command that also makes the installation the current one.
installAction_SetCurrent(f, files, sf, arg, options, run, now) ==
  LET t0 == Started("install", arg, options, sf)
      AfterEnsure(r, e) ==
        [fs |-> e.fs,
         stateFile |-> IF e.call.outcome = "ok"
                       THEN writeState(e.fs, sf, "current" :> e.call.meta[1], now).file
                       ELSE sf,
         trace |-> With(t0, [failedAt |-> IF e.call.outcome = "ok" THEN "none"
                                          ELSE "ensureInstalled",
                             error |-> e.call.error,
                             load |-> r.load, resolved |-> r.resolved,
                             ensure |-> <<e.call>>])]
      AfterResolve(r) ==
        IF r.failedAt # "none"
        THEN [fs |-> f, stateFile |-> sf, trace |-> With(t0, r)]
        ELSE CHOOSE out \in {AfterEnsure(r, e) :
                  e \in {ensureInstalled(f, r.resolved.target, run, now)}} : TRUE
  IN CHOOSE out \in {AfterResolve(r) : r \in {ResolveFor(files, sf, arg,
                      [packageOverride |-> options.package, argsOverride |-> Null])}} : TRUE

\* installAction on the disk f, the config files, the state file sf, at time
\* now: the disk and state file it leaves, and what it did.
installAction(f, files, sf, arg, options, run, now) ==
  LET t0 == Started("install", arg, options, sf)
      AfterEnsure(r, e) ==
        [fs |-> e.fs, stateFile |-> sf,
         trace |-> With(t0, [failedAt |-> IF e.call.outcome = "ok" THEN "none"
                                          ELSE "ensureInstalled",
                             error |-> e.call.error,
                             load |-> r.load, resolved |-> r.resolved,
                             ensure |-> <<e.call>>])]
      AfterResolve(r) ==
        IF r.failedAt # "none"
        THEN [fs |-> f, stateFile |-> sf, trace |-> With(t0, r)]
        ELSE CHOOSE out \in {AfterEnsure(r, e) :
                  e \in {ensureInstalled(f, r.resolved.target, run, now)}} : TRUE
  IN CHOOSE out \in {AfterResolve(r) : r \in {ResolveFor(files, sf, arg,
                      [packageOverride |-> options.package, argsOverride |-> Null])}} : TRUE

\* A run that leaves state.current for later: nothing is written here.
SetCurrentAfter_Skipped(e, sf, now) ==
  [threw |-> FALSE, fs |-> e.fs, file |-> sf]

\* A setCurrent that stores the target asked for, not the record ensured.
SetCurrentAfter_Target(e, sf, now) ==
  writeState(e.fs, sf, "current" :> e.call.target,
             IF e.call.installs = 1 THEN now + 1 ELSE now)

\* setCurrent(meta) after a successful ensureInstalled call e, at the time the
\* call has left.
SetCurrentAfter(e, sf, now) ==
  writeState(e.fs, sf, "current" :> e.call.meta[1],
             IF e.call.installs = 1 THEN now + 1 ELSE now)

\* globalAction
globalAction(f, files, sf, arg, options, run, now) ==
  LET t0 == Started("global", arg, options, sf)
      AfterSetCurrent(t1, w) ==
        [fs |-> w.fs, stateFile |-> w.file,
         trace |-> With(t1, [wroteState |-> ~w.threw])]
      AfterEnsure(r, e) ==
        LET t1 == With(t0, [load |-> r.load, resolved |-> r.resolved,
                            ensure |-> <<e.call>>])
        IN IF e.call.outcome # "ok"
           THEN [fs |-> e.fs, stateFile |-> sf,
                 trace |-> With(t1, [failedAt |-> "ensureInstalled",
                                     error |-> e.call.error])]
           ELSE CHOOSE out \in {AfterSetCurrent(t1, w) :
                  w \in {SetCurrentAfter(e, sf, now)}} : TRUE
      AfterResolve(r) ==
        IF r.failedAt # "none"
        THEN [fs |-> f, stateFile |-> sf, trace |-> With(t0, r)]
        ELSE CHOOSE out \in {AfterEnsure(r, e) :
                  e \in {ensureInstalled(f, r.resolved.target, run, now)}} : TRUE
  IN CHOOSE out \in {AfterResolve(r) : r \in {ResolveFor(files, sf, arg,
                      [packageOverride |-> options.package,
                       argsOverride |-> options.args])}} : TRUE

\* What the package put at an install path, in four layouts: nothing that can
\* be run; only the shared binary; a descriptor whose bin is a file of the
\* package; a descriptor whose bin climbs out of the installation.
Layouts == {"none", "shared", "declared", "outside"}

BinCli == <<"c","l","i",".","j","s">>
BinOutside ==
  <<".",".","/",".",".","/",".",".","/",".",".","/","2","/","r","u","n">>

PackageAt(layout, installPath, packageName) ==
  LET packageDir == PathJoin(PathJoin(installPath, NodeModules), packageName)
      sharedDir == PathJoin(PathJoin(installPath, NodeModules), DotBin)
      Declares(b) == ValidJson(JDoc(<< <<BinKey, JString(b)>> >>))
  IN CASE layout = "none" -> Package(NoDescriptor, {})
       [] layout = "shared" ->
            Package(NoDescriptor, {PathJoin(sharedDir, FallbackName(packageName))})
       [] layout = "declared" ->
            Package(Declares(BinCli), {PathJoin(packageDir, BinCli)})
       [] layout = "outside" ->
            Package(Declares(BinOutside), {PathJoin(packageDir, BinOutside)})

\* Default args put after the extra arguments.
CombinedArgs_Appended(metaArgs, agentArgs) ==
  agentArgs \o parseArgsString(metaArgs)

\* combinedArgs = [...parseArgsString(meta.args), ...(agentArgs || [])]
CombinedArgs(metaArgs, agentArgs) ==
  parseArgsString(metaArgs) \o agentArgs

\* A launch that goes on without a binary.
LaunchFound_Anyway(found, combinedArgs, agentRun) ==
  LET binPath == IF found = <<>> THEN <<>> ELSE found[1]
      done == runCommand(binPath, combinedArgs, agentRun)
  IN [failedAt |-> IF done.rejected THEN "runCommand" ELSE "none",
      error |-> IF done.rejected THEN <<done.error>> ELSE <<>>,
      launched |-> <<[bin |-> binPath, args |-> combinedArgs, run |-> agentRun]>>]

\* runAction from `if (!binPath)` on: the throw, or the launch and how it
\* ended.
LaunchFound(found, combinedArgs, agentRun) ==
  IF found = <<>>
  THEN [failedAt |-> "findAgentBinary", error |-> <<[kind |-> "BinaryNotFound"]>>]
  ELSE LET done == runCommand(found[1], combinedArgs, agentRun)
       IN [failedAt |-> IF done.rejected THEN "runCommand" ELSE "none",
           error |-> IF done.rejected THEN <<done.error>> ELSE <<>>,
           launched |-> <<[bin |-> found[1], args |-> combinedArgs,
                           run |-> agentRun]>>]

\* runAction, with the installed package laid out as layout says and the
\* agent ending as agentRun says.
runAction(f, files, sf, arg, agentArgs, options, run, layout, agentRun, now) ==
  LET t0 == Started("run", arg, options, sf)
      AfterFind(t2, e, w, found) ==
        [fs |-> w.fs, stateFile |-> w.file,
         trace |-> With(t2, LaunchFound(found,
                                        CombinedArgs(e.call.meta[1].args, agentArgs),
                                        agentRun))]
      AfterSetCurrent(t1, e, w) ==
        CHOOSE out \in
          {AfterFind(With(t1, [wroteState |-> ~w.threw]), e, w, found) :
             found \in {findAgentBinary(
                          PackageAt(layout, e.call.path, e.call.meta[1].package),
                          e.call.path, e.call.meta[1].package)}} : TRUE
      AfterEnsure(r, e) ==
        LET t1 == With(t0, [load |-> r.load, resolved |-> r.resolved,
                            ensure |-> <<e.call>>])
        IN IF e.call.outcome # "ok"
           THEN [fs |-> e.fs, stateFile |-> sf,
                 trace |-> With(t1, [failedAt |-> "ensureInstalled",
                                     error |-> e.call.error])]
           ELSE CHOOSE out \in {AfterSetCurrent(t1, e, w) :
                  w \in {SetCurrentAfter(e, sf, now)}} : TRUE
      AfterResolve(r) ==
        IF r.failedAt # "none"
        THEN [fs |-> f, stateFile |-> sf, trace |-> With(t0, r)]
        ELSE CHOOSE out \in {AfterEnsure(r, e) :
                  e \in {ensureInstalled(f, r.resolved.target, run, now)}} : TRUE
  IN CHOOSE out \in {AfterResolve(r) : r \in {ResolveFor(files, sf, arg,
                      [packageOverride |-> options.package, argsOverride |-> Null])}} : TRUE

\* wrapAction around a handler that left the trace t: the status the process
\* exits with.  A handler that returns lets the process end with status 0; one
\* that throws is answered with process.exit(1), whatever it threw.
wrapAction(t) == [exitCode |-> IF t.failedAt = "none" THEN 0 ELSE 1]

----------------------------------------------------------------------------
(* commands.js: local *)

\* The tools in the order their sections are written.  (The code writes them
\* in the order config.agents received them; each tool is written once, so the
\* order has no effect on what a later load finds.)
ToolOrder == <<codex, claude, gemini>>

\* The section writeProjectConfig writes for an agent: the fields that are
\* truthy.
WrittenSection(agent) ==
  JObject((IF Truthy(agent.package) THEN "package" :> agent.package ELSE <<>>)
          @@ (IF Truthy(agent.version) THEN "version" :> agent.version ELSE <<>>)
          @@ (IF Truthy(agent.args) THEN "args" :> agent.args ELSE <<>>))

\* writeProjectConfig(config, targetPath): the document JSON.stringify(data)
\* holds.
WrittenConfig(cfg) ==
  LET names == SelectSeq(ToolOrder, LAMBDA n : n \in DOMAIN cfg.agents)
      sections == [i \in 1..Len(names) |->
                     <<names[i], WrittenSection(cfg.agents[names[i]])>>]
  IN JDoc((IF Truthy(cfg.default)
           THEN << <<DefaultKey, JObject([name |-> cfg.default])>> >>
           ELSE <<>>) \o sections)

\* The section localAction gives a tool that has none.
NewSection == [package |-> Null, version |-> Null, args |-> EmptyString]

\* A local command that starts the tool's section afresh.
localAction_FreshSection(files, arg, options) ==
  LET t0 == [name |-> "local", agentArg |-> arg, options |-> options,
             before |-> files, failedAt |-> "none", error |-> <<>>,
             load |-> <<>>, wrote |-> <<>>]
      parsed == parseAgentSpec(arg)
      name == normalizeAgentName(parsed.name)
      Loaded(load) ==
        IF load.threw
        THEN [configFiles |-> files,
              trace |-> With(t0, [failedAt |-> "loadProjectConfig",
                                  error |-> <<load.error>>])]
        ELSE IF ~Truthy(parsed.name)
        THEN [configFiles |-> files,
              trace |-> With(t0, [failedAt |-> "parseAgentSpec", load |-> <<load>>,
                                  error |-> <<[kind |-> "AgentSpecRequired"]>>])]
        ELSE IF name \notin SUPPORTED_AGENTS
        THEN [configFiles |-> files,
              trace |-> With(t0, [failedAt |-> "assertSupportedAgent",
                                  load |-> <<load>>,
                                  error |-> <<[kind |-> "UnsupportedAgent"]>>])]
        ELSE
        LET section == [package |-> NewSection.package,
                        version |-> IF Truthy(parsed.version) THEN parsed.version
                                    ELSE NewSection.version,
                        args |-> IF options.args # Null THEN options.args
                                 ELSE NewSection.args]
            config1 == [default |-> name,
                        agents |-> (name :> section) @@ load.config.agents]
            targetDir == IF load.path # <<>>
                         THEN SubSeq(load.path[1], 1, Len(load.path[1]) - 1)
                         ELSE Cwd
        IN [configFiles |-> (targetDir :> ValidJson(WrittenConfig(config1))) @@ files,
            trace |-> With(t0, [load |-> <<load>>,
                                wrote |-> <<Append(targetDir, ConfigName)>>])]
  IN CHOOSE out \in {Loaded(load) : load \in {loadProjectConfig(files, Cwd)}} : TRUE

\* localAction(agentArg, options) over the config files: the files it leaves
\* and what it did.  options.args is Null when --args was not given.
localAction(files, arg, options) ==
  LET t0 == [name |-> "local", agentArg |-> arg, options |-> options,
             before |-> files, failedAt |-> "none", error |-> <<>>,
             load |-> <<>>, wrote |-> <<>>]
      parsed == parseAgentSpec(arg)
      name == normalizeAgentName(parsed.name)
      Loaded(load) ==
        IF load.threw
        THEN [configFiles |-> files,
              trace |-> With(t0, [failedAt |-> "loadProjectConfig",
                                  error |-> <<load.error>>])]
        ELSE IF ~Truthy(parsed.name)
        THEN [configFiles |-> files,
              trace |-> With(t0, [failedAt |-> "parseAgentSpec", load |-> <<load>>,
                                  error |-> <<[kind |-> "AgentSpecRequired"]>>])]
        ELSE IF name \notin SUPPORTED_AGENTS
        THEN [configFiles |-> files,
              trace |-> With(t0, [failedAt |-> "assertSupportedAgent",
                                  load |-> <<load>>,
                                  error |-> <<[kind |-> "UnsupportedAgent"]>>])]
        ELSE
        LET existing == IF name \in DOMAIN load.config.agents
                        THEN load.config.agents[name] ELSE NewSection
            section == [package |-> existing.package,
                        version |-> IF Truthy(parsed.version) THEN parsed.version
                                    ELSE existing.version,
                        args |-> IF options.args # Null THEN options.args
                                 ELSE existing.args]
            config1 == [default |-> name,
                        agents |-> (name :> section) @@ load.config.agents]
            targetDir == IF load.path # <<>>
                         THEN SubSeq(load.path[1], 1, Len(load.path[1]) - 1)
                         ELSE Cwd
        IN [configFiles |-> (targetDir :> ValidJson(WrittenConfig(config1))) @@ files,
            trace |-> With(t0, [load |-> <<load>>,
                                wrote |-> <<Append(targetDir, ConfigName)>>])]
  IN CHOOSE out \in {Loaded(load) : load \in {loadProjectConfig(files, Cwd)}} : TRUE

----------------------------------------------------------------------------
(* The inputs of resolveTarget *)

V1 == <<"1">>
V2 == <<"2">>
V3 == <<"3">>

\* Names as a user may type them on the command line.
CliNameForms ==
  { codex,
    <<" ","C","o","D","e","X"," ">>,
    <<"G","E","M","I","N","I","\t">>,
    <<"f","o","o">>,
    <<"c","o"," ","d","e","x">>,
    PkgCodex }

\* What follows the name: nothing, a bare '@', or '@' and a version.
CliVersions == {Null, EmptyString, V1, latest}

\* An absent agent argument: not given, empty, or blank.
NoAgentArgs == {Null, EmptyString, <<" ">>}

ComposeSpec(n, v) == IF v = Null THEN n ELSE n \o <<"@">> \o v

\* loadProjectConfig leaves default null or a normalized supported name.
ConfigDefaults == {Null, codex, claude}

CfgPkg == <<"@","y","o","u","r","-","s","c","o","p","e","/","c","o","d","e","x","-","c","l","i">>
CfgArgs == <<"-","-","c","f","g">>

CodexSections ==
  { [package |-> CfgPkg, version |-> V2, args |-> CfgArgs],
    [package |-> CfgPkg, version |-> Null, args |-> EmptyString],
    [package |-> Null, version |-> V2, args |-> CfgArgs] }

ClaudeSections ==
  { [package |-> CfgPkg, version |-> V2, args |-> CfgArgs] }

ConfigAgents ==
  { a @@ b : a \in {<<>>} \cup {codex :> s : s \in CodexSections},
             b \in {<<>>} \cup {claude :> s : s \in ClaudeSections} }

Configs == [default : ConfigDefaults, agents : ConfigAgents]

StatePkg == <<"@","o","t","h","e","r","/","c","o","d","e","x","-","f","o","r","k">>
StateArgs == <<"r","e","s","u","m","e">>

\* state.json is written by setCurrent with a supported name, and may also hold
\* what an earlier version or the user wrote.
StateNames ==
  { codex, <<"C","o","d","e","x"," ">>, claude, <<"f","o","o">>, <<" ">> }

StateRecords ==
  { [package |-> StatePkg, version |-> V3, args |-> StateArgs],
    [package |-> StatePkg, version |-> Null, args |-> EmptyString],
    [package |-> Null, version |-> Null, args |-> EmptyString] }

States ==
  { [current |-> <<>>] } \cup
  { [current |-> <<[name |-> n] @@ r>>] : n \in StateNames, r \in StateRecords }

OvPkg == <<"@","c","l","i","/","p","k","g">>
OvArgs == <<"-","-","c","l","i">>

Overrides == [packageOverride : {Null, OvPkg}, argsOverride : {Null, EmptyString, OvArgs}]

\* Before the first command: the home directory exists, ~/.avm does not.
InitFs == MkdirP(<<>>, SubSeq(AVM_HOME, 1, 1))

InitResolve ==
  /\ pc = "resolve"
  /\ cliName \in CliNameForms \cup {Null}
  /\ \E v \in CliVersions :
        agentArg \in IF cliName = Null THEN NoAgentArgs ELSE {ComposeSpec(cliName, v)}
  /\ config \in Configs
  /\ state \in States
  /\ overrides \in Overrides
  /\ result = NoResult
  /\ fs = InitFs
  /\ calls = <<>>
  /\ clock = 0
  /\ NoCommand
  /\ NoWrapper
  /\ NoneRunning

Resolve ==
  /\ pc = "resolve"
  /\ result' = resolveTarget(agentArg, config, state, overrides)
  /\ pc' = "resolved"
  /\ UNCHANGED <<agentArg, cliName, config, state, overrides, fs, calls, clock,
                 commandVars>>
  /\ UNCHANGED wrapperVars
  /\ UNCHANGED stepVars

NextResolve == Resolve

SpecResolve == InitResolve /\ [][NextResolve]_vars

Resolved == pc = "resolved"

----------------------------------------------------------------------------
(* Claims about resolveTarget *)

Parsed == parseAgentSpec(agentArg)

StateName == StateField(state.current, "name")

\* A name source holds a name when it holds a non-blank string.
NamePresent(v) == v # Null /\ \E i \in DOMAIN v : v[i] \notin WhiteSpace

\* The first of the three name sources that holds a name, else Null.
FirstName ==
  IF NamePresent(Parsed.name) THEN Parsed.name
  ELSE IF NamePresent(config.default) THEN config.default
  ELSE IF NamePresent(StateName) THEN StateName
  ELSE Null

\* The project config's section for tool n, and the state's current record when
\* its tool is n (case and surrounding whitespace aside), field by field.
CfgField(n, f) == IF n \in DOMAIN config.agents THEN config.agents[n][f] ELSE Null

SameTool(a, b) == ToLowerCase(Trim(a)) = ToLowerCase(Trim(b))

StField(n, f) ==
  IF state.current # <<>> /\ state.current[1].name # Null
     /\ SameTool(state.current[1].name, n)
  THEN state.current[1][f]
  ELSE Null

\* First match among three sources and a default; a source is present when it
\* holds a non-empty string.
FirstOf(a, b, c, d) ==
  IF Truthy(a) THEN a ELSE IF Truthy(b) THEN b ELSE IF Truthy(c) THEN c ELSE d

\* C2: the name is the first present of the CLI name, the project default and
\* the state's current name; the outcome is decided by that name alone (a
\* Target with it when it is supported, UnsupportedAgent otherwise, never a
\* lower source), and NoAgentSpecified is the result exactly when none of the
\* three is present.
C2_NamePrecedence ==
  Resolved =>
    /\ (result = Err("NoAgentSpecified")) <=> (FirstName = Null)
    /\ FirstName # Null =>
         IF normalizeAgentName(FirstName) \in SUPPORTED_AGENTS
         THEN result.kind = "target"
              /\ result.target.name = normalizeAgentName(FirstName)
         ELSE result = Err("UnsupportedAgent")

C2_Witness ==
  /\ Resolved
  /\ Parsed.name = codex
  /\ config.default = claude
  /\ StateName = <<"f","o","o">>
  /\ result.kind = "target"
  /\ result.target.name = codex

\* C3: the package is the first present of the override, the project config's
\* package for the resolved tool, the state's package when the state's current
\* tool is the resolved tool, and the built-in table; NoPackageConfigured is
\* thrown only when none of the four applies.
C3_PackagePrecedence ==
  Resolved =>
    /\ result.kind = "target" =>
         LET n == result.target.name
         IN result.target.package =
              FirstOf(overrides.packageOverride, CfgField(n, "package"),
                      StField(n, "package"), DEFAULT_PACKAGES[n])
    /\ result = Err("NoPackageConfigured") =>
         LET n == normalizeAgentName(FirstName)
         IN /\ ~Truthy(overrides.packageOverride)
            /\ ~Truthy(CfgField(n, "package"))
            /\ ~Truthy(StField(n, "package"))
            /\ n \notin DOMAIN DEFAULT_PACKAGES

C3_Witness ==
  /\ Resolved
  /\ result.kind = "target"
  /\ overrides.packageOverride = Null
  /\ CfgField(result.target.name, "package") = CfgPkg
  /\ StField(result.target.name, "package") = StatePkg
  /\ result.target.package = CfgPkg

\* The three version sources of the resolved tool n.
VersionSourcesAbsent(n) ==
  /\ ~Truthy(Parsed.version)
  /\ ~Truthy(CfgField(n, "version"))
  /\ ~Truthy(StField(n, "version"))

\* C4 (amended): the version is the first present of the CLI version, the
\* project config's version for the resolved tool and the state's version when
\* the state's current tool is the resolved tool, and is "latest" when all three
\* are absent.
C4_VersionPrecedence ==
  Resolved /\ result.kind = "target" =>
    LET n == result.target.name
    IN /\ result.target.version =
            FirstOf(Parsed.version, CfgField(n, "version"), StField(n, "version"), latest)
       /\ VersionSourcesAbsent(n) => result.target.version = latest

\* C4 as stated: ... and the version is "latest" exactly when the three sources
\* are all absent.
C4_LatestExactlyWhenAbsent ==
  Resolved /\ result.kind = "target" =>
    LET n == result.target.name
    IN /\ result.target.version =
            FirstOf(Parsed.version, CfgField(n, "version"), StField(n, "version"), latest)
       /\ (result.target.version = latest) <=> VersionSourcesAbsent(n)

C4_Witness ==
  /\ Resolved
  /\ result.kind = "target"
  /\ Parsed.version = V1
  /\ CfgField(result.target.name, "version") = V2
  /\ StField(result.target.name, "version") = V3
  /\ result.target.version = V1

\* C5: the default args are the first present of the args override, the project
\* config's args for the resolved tool and the state's args when the state's
\* current tool is the resolved tool, else empty.
C5_ArgsPrecedence ==
  Resolved /\ result.kind = "target" =>
    LET n == result.target.name
    IN result.target.args =
         FirstOf(overrides.argsOverride, CfgField(n, "args"), StField(n, "args"),
                 EmptyString)

C5_Witness ==
  /\ Resolved
  /\ result.kind = "target"
  /\ overrides.argsOverride = OvArgs
  /\ CfgField(result.target.name, "args") = CfgArgs
  /\ StField(result.target.name, "args") = StateArgs
  /\ result.target.args = OvArgs

\* A state whose current record, if any, is for another tool than n.
ForAnotherTool(st, n) ==
  st.current = <<>> \/ ~SameTool(Or2(st.current[1].name, EmptyString), n)

\* C6: when the state's current tool is not the resolved tool, the Target is the
\* one an empty global state gives, and the one any other state whose current
\* record is for another tool gives.
C6_NoLeakFromOtherTool ==
  Resolved /\ result.kind = "target" /\ ForAnotherTool(state, result.target.name) =>
    \A st \in States :
      ForAnotherTool(st, result.target.name) =>
        resolveTarget(agentArg, config, st, overrides) = result

C6_Witness ==
  /\ Resolved
  /\ result.kind = "target"
  /\ result.target.name = codex
  /\ state.current # <<>>
  /\ state.current[1] = [name |-> claude, package |-> StatePkg,
                         version |-> V3, args |-> StateArgs]
  /\ codex \notin DOMAIN config.agents
  /\ overrides = [packageOverride |-> Null, argsOverride |-> Null]
  /\ Parsed.version = Null
  /\ result.target = [name |-> codex, package |-> PkgCodex,
                      version |-> latest, args |-> EmptyString]

ToUpperChar(c) ==
  IF \E i \in DOMAIN LowerChars : LowerChars[i] = c
  THEN UpperChars[CHOOSE i \in DOMAIN LowerChars : LowerChars[i] = c]
  ELSE c

\* raw is the canonical name c in some letter case, with whitespace around it.
WrittenAs(raw, c) ==
  \E lead \in 0..Len(raw) :
    /\ lead + Len(c) <= Len(raw)
    /\ \A k \in 1..lead : raw[k] \in WhiteSpace
    /\ \A k \in 1..Len(c) : raw[lead + k] \in {c[k], ToUpperChar(c[k])}
    /\ \A k \in (lead + Len(c) + 1)..Len(raw) : raw[k] \in WhiteSpace

\* The name as the source that supplied it holds it: what the user typed on the
\* command line, else the project default, else the state's current name.
RawName ==
  IF cliName # Null THEN cliName
  ELSE IF Truthy(config.default) THEN config.default
  ELSE StateName

\* C7: a supported name in any letter case and with surrounding whitespace, from
\* whichever source, resolves to its canonical lowercase form; any other
\* non-blank name gives UnsupportedAgent and no Target.
C7_NameNormalized ==
  Resolved /\ NamePresent(RawName) =>
    IF \E c \in SUPPORTED_AGENTS : WrittenAs(RawName, c)
    THEN result.kind = "target" /\ WrittenAs(RawName, result.target.name)
    ELSE result = Err("UnsupportedAgent")

C7_Witness ==
  /\ Resolved
  /\ cliName = Null
  /\ config.default = Null
  /\ StateName = <<"C","o","d","e","x"," ">>
  /\ result.kind = "target"
  /\ result.target.name = codex

----------------------------------------------------------------------------
(* The install store under any sequence of ensureInstalled calls *)

MaxClock == 2

DotSlash1 == <<".","/","1">>
DotDot == <<".",".">>

ForkPkg == StatePkg

T(n, p, v, a) == [name |-> n, package |-> p, version |-> v, args |-> a]

\* codex@1 from two packages and with and without default args, the same slot
\* under another spelling of the version, the latest slot from two packages,
\* another tool, and a version that names the parent directory.
StoreTargets ==
  { T(codex, PkgCodex, V1, EmptyString),
    T(codex, PkgCodex, V1, StateArgs),
    T(codex, ForkPkg, V1, EmptyString),
    T(codex, PkgCodex, DotSlash1, EmptyString),
    T(codex, PkgCodex, latest, EmptyString),
    T(codex, ForkPkg, latest, EmptyString),
    T(claude, PkgClaude, V1, EmptyString),
    T(codex, PkgCodex, DotDot, EmptyString) }

\* What is kept of a call once a later call has been made.
Summary(c) ==
  [target |-> c.target, path |-> c.path, outcome |-> c.outcome,
   installs |-> c.installs, removed |-> c.removed,
   drift |-> c.existingMeta # <<>> /\ c.existingMeta[1].package # c.target.package]

\* The history holds the latest call in full and the call before it in summary.
Older(cs) == IF cs = <<>> THEN <<>> ELSE <<Summary(cs[1])>>

InitStore ==
  /\ pc = "store"
  /\ fs = InitFs
  /\ calls = <<>>
  /\ clock = 0
  /\ agentArg = Null
  /\ cliName = Null
  /\ config = [default |-> Null, agents |-> <<>>]
  /\ state = [current |-> <<>>]
  /\ overrides = [packageOverride |-> Null, argsOverride |-> Null]
  /\ result = NoResult
  /\ NoCommand
  /\ NoWrapper
  /\ NoneRunning

\* An npm that is launched and exits.
NpmExits == {Exit0, Exit1}

\* One ensureInstalled call, start to return or throw, for one of the targets
\* and one of the ways the installer may end.
EnsureOf(targets, runs) ==
  /\ pc = "store"
  /\ \E target \in targets, run \in runs :
     \E r \in {ensureInstalled(fs, target, run, clock)} :
       LET stamped == r.call.installs = 1 /\ r.call.outcome = "ok"
       IN /\ stamped => clock < MaxClock
          /\ fs' = r.fs
          /\ calls' = <<r.call>> \o Older(calls)
          /\ clock' = IF stamped THEN clock + 1 ELSE clock
  /\ UNCHANGED <<agentArg, cliName, config, state, overrides, result, pc,
                 commandVars>>
  /\ UNCHANGED wrapperVars
  /\ UNCHANGED stepVars

Ensure == EnsureOf(StoreTargets, NpmExits)

NextStore == Ensure

Spec == InitStore /\ [][NextStore]_vars

----------------------------------------------------------------------------
(* Claims about the install store *)

Last == calls[1]
Prev == calls[2]

\* The InstallRecord on disk at path p matches the target's package and version.
RecordMatches(f, p, target) ==
  /\ p \in DOMAIN f
  /\ f[p].meta # <<>>
  /\ f[p].meta[1].package = target.package
  /\ f[p].meta[1].version = target.version

\* C1: whenever ensureInstalled has returned, the directory at the returned path
\* holds exactly what the installer produced from target.package@target.version,
\* with no debris of a failed install, and an InstallRecord whose package and
\* version are the target's.
C1_ReturnedInstallMatchesTarget ==
  calls # <<>> /\ Last.outcome = "ok" =>
    /\ RecordMatches(fs, Last.path, Last.target)
    /\ fs[Last.path].content =
         [specs |-> {Last.target.package \o <<"@">> \o Last.target.version},
          partial |-> FALSE]

\* A return on a slot that held another package's installation and, before
\* that, a failed install.
C1_Witness ==
  /\ Len(calls) = 2
  /\ Last.outcome = "ok"
  /\ Last.installs = 1
  /\ Last.removed
  /\ Last.target.package = ForkPkg
  /\ Prev.outcome = "InstallFailure"
  /\ Prev.path = Last.path
  /\ Prev.target.package = PkgCodex

\* C8: in every ensureInstalled call the installer is invoked iff the disk holds
\* no InstallRecord at the path or one whose package or version differs from the
\* target's; on a hit nothing is removed, the installer is not invoked and what
\* is installed at the path stays as it was.
C8_InstallIffCacheMiss ==
  [][ LET c == calls'[1]
          hit == RecordMatches(fs, c.path, c.target)
      IN /\ (c.installs = 1) <=> ~hit
         /\ c.installs \in {0, 1}
         /\ hit => /\ ~c.removed
                   /\ c.outcome = "ok"
                   /\ \A q \in DOMAIN fs :
                        q \in DOMAIN fs' /\ fs'[q].content = fs[q].content
    ]_vars

\* A miss made only by the spelling of the version, right after a hit.
C8_Witness ==
  /\ Len(calls) = 2
  /\ Prev.installs = 0
  /\ Prev.outcome = "ok"
  /\ Last.installs = 1
  /\ Last.removed
  /\ Last.existingMeta # <<>>
  /\ Last.existingMeta[1].package = Last.target.package
  /\ Last.existingMeta[1].version # Last.target.version

SameSlot(a, b) == a.name = b.name /\ a.version = b.version

\* C9: two targets with the same name and version and different packages get
\* the same path; after a successful call for the first, the call for the second
\* finds the first's record, removes the directory and invokes the installer
\* once, and if that succeeds the record names the second package; the call that
\* follows such a reinstall with the same target is a hit: nothing removed, no
\* installer.
C9_CacheDrift ==
  Len(calls) = 2 =>
    /\ SameSlot(Prev.target, Last.target) => Prev.path = Last.path
    /\ ( /\ Prev.outcome = "ok"
         /\ SameSlot(Prev.target, Last.target)
         /\ Prev.target.package # Last.target.package )
       => /\ Last.existingMeta # <<>>
          /\ Last.existingMeta[1].package = Prev.target.package
          /\ Last.removed
          /\ Last.installs = 1
          /\ Last.outcome = "ok" =>
               /\ fs[Last.path].meta[1].package = Last.target.package
               /\ fs[Last.path].content.specs = {PkgSpec(Last.target)}
    /\ ( /\ Prev.outcome = "ok"
         /\ Prev.drift
         /\ Last.target = Prev.target )
       => /\ Last.outcome = "ok"
          /\ Last.installs = 0
          /\ ~Last.removed
          /\ fs[Last.path].meta[1].package = Last.target.package

\* The third call of the scenario: a hit right after a drift reinstall.
C9_Witness ==
  /\ Len(calls) = 2
  /\ Prev.outcome = "ok"
  /\ Prev.drift
  /\ Prev.removed
  /\ Prev.target = T(codex, ForkPkg, V1, EmptyString)
  /\ Last.target = Prev.target
  /\ Last.installs = 0

\* Installations a call completed.
Completed(c) == IF c.outcome = "ok" THEN c.installs ELSE 0

C11_HitReconcilesArgs ==
  [][ LET c == calls'[1]
      IN RecordMatches(fs, c.path, c.target) =>
           LET old == fs[c.path].meta[1]
               new == fs'[c.path].meta[1]
           IN /\ c.outcome = "ok"
              /\ c.installs = 0
              /\ c.run = <<>>
              /\ ~c.removed
              /\ fs'[c.path].content = fs[c.path].content
              /\ new.package = old.package
              /\ new.version = old.version
              /\ new.installedAt = old.installedAt
              /\ c.meta = <<new>>
              /\ (c.target.args # EmptyString /\ c.target.args # old.args)
                   => new.args = c.target.args
              /\ c.target.args = EmptyString => new.args = old.args
    ]_vars

\* A hit with empty args on a record whose args the hit before it has set, the
\* record having been installed without args at an earlier time.
C11_Witness ==
  /\ Len(calls) = 2
  /\ Prev.outcome = "ok"
  /\ Prev.installs = 0
  /\ Prev.target.args = StateArgs
  /\ Last.path = Prev.path
  /\ Last.installs = 0
  /\ Last.target.args = EmptyString
  /\ Last.existingMeta[1].args = StateArgs
  /\ Last.meta[1].args = StateArgs
  /\ fs[Last.path].meta[1].args = StateArgs
  /\ fs[Last.path].meta[1].installedAt < clock - 1

----------------------------------------------------------------------------
(* The install store when npm may be missing and records may be damaged *)

\* One slot from two packages, and another tool's slot.
FaultTargets ==
  { T(codex, PkgCodex, V1, EmptyString),
    T(codex, ForkPkg, V1, EmptyString),
    T(claude, PkgClaude, V1, StateArgs) }

EnsureUnderFaults == EnsureOf(FaultTargets, InstallerRuns)

\* Something else than avm leaves an InstallRecord unreadable or no longer
\* JSON.
CorruptMeta ==
  /\ pc = "store"
  /\ \E p \in DOMAIN fs, e \in ReadErrors :
       /\ fs[p].meta # <<>>
       /\ fs[p].meta[1] \notin ReadErrors
       /\ fs' = [fs EXCEPT ![p].meta = <<e>>]
  /\ UNCHANGED <<agentArg, cliName, config, state, overrides, result, calls,
                 clock, pc, commandVars>>
  /\ UNCHANGED wrapperVars
  /\ UNCHANGED stepVars

NextFaults == EnsureUnderFaults \/ CorruptMeta

SpecFaults == InitStore /\ [][NextFaults]_vars

\* The installer of the latest call exited with a non-zero code.
ExitedNonZero(c) == c.run # <<>> /\ c.run[1].event = "close" /\ c.run[1].code # 0

\* The installer of the latest call could not be launched.
NotLaunched(c) == c.run # <<>> /\ c.run[1].event = "error"

\* The error names the command and the exit code.
NamesCommandAndCode(c, e) ==
  /\ DOMAIN e = {"command", "args", "code"}
  /\ e.command = "npm"
  /\ e.args = NpmArgs(c.path, PkgSpec(c.target))
  /\ e.code = c.run[1].code

\* C12 (amended): a call whose installer exits with a non-zero code throws an
\* error naming the command, its arguments and the exit code; a call whose
\* installer cannot be launched throws the launch error, which carries no exit
\* code; in both the installer has been invoked once, no record is written and
\* no path is returned.
C12_InstallFailure ==
  calls # <<>> /\ (ExitedNonZero(Last) \/ NotLaunched(Last)) =>
    /\ Last.outcome = "InstallFailure"
    /\ Last.installs = 1
    /\ Len(Last.run) = 1
    /\ Last.meta = <<>>
    /\ ~Last.wrote
    /\ fs[Last.path].meta = <<>>
    /\ ExitedNonZero(Last) => NamesCommandAndCode(Last, Last.error[1])
    /\ NotLaunched(Last) => Last.error = <<SpawnError.err>>

\* C12 as stated: ... or cannot be launched, the error identifies the command
\* and the exit code.
C12_ErrorAlwaysNamesExitCode ==
  calls # <<>> /\ (ExitedNonZero(Last) \/ NotLaunched(Last)) =>
    /\ Last.outcome = "InstallFailure"
    /\ Last.installs = 1
    /\ Last.meta = <<>>
    /\ NamesCommandAndCode(Last, Last.error[1])

\* A launch failure on a slot that a failed install had left without a record.
C12_Witness ==
  /\ Len(calls) = 2
  /\ Prev.outcome = "InstallFailure"
  /\ Prev.path = Last.path
  /\ NotLaunched(Last)
  /\ Last.removed
  /\ Last.outcome = "InstallFailure"
  /\ Last.error = <<SpawnError.err>>

\* The record at the path of call c cannot be read on disk f.
Unreadable(f, c) ==
  c.path \in DOMAIN f /\ f[c.path].meta # <<>> /\ f[c.path].meta[1] \in ReadErrors

\* C13: a call that finds the record at an existing path unreadable or not
\* JSON throws the read error: nothing is removed, the installer is not
\* invoked and the disk stays as it was.
C13_ReadErrorPropagates ==
  [][ EnsureUnderFaults =>
        LET c == calls'[1]
        IN Unreadable(fs, c) =>
             /\ c.outcome = "ReadError"
             /\ c.error = fs[c.path].meta
             /\ c.installs = 0
             /\ c.run = <<>>
             /\ ~c.removed
             /\ c.meta = <<>>
             /\ fs' = fs
    ]_vars

\* A call that threw on a record that is no longer JSON, in a directory that
\* still holds the installation the call before it made.
C13_Witness ==
  /\ Len(calls) = 2
  /\ Prev.outcome = "ok"
  /\ Prev.installs = 1
  /\ Prev.path = Last.path
  /\ Last.outcome = "ReadError"
  /\ Last.error = <<SyntaxError>>
  /\ fs[Last.path].meta = <<SyntaxError>>
  /\ fs[Last.path].content.specs = {PkgSpec(Prev.target)}

----------------------------------------------------------------------------
(* The global state file under any sequence of writeState calls *)

MaxWrites == 3

\* What setCurrent writes, and what the update notifier writes.
CurrentValues ==
  { T(codex, PkgCodex, V1, EmptyString) @@ [installedAt |-> 0],
    T(claude, PkgClaude, latest, StateArgs) @@ [installedAt |-> 1] }

SelfValues ==
  { [lastUpdateCheck |-> 0],
    [lastUpdateCheck |-> 1, latestVersion |-> V2] }

StatePatches ==
  {"current" :> x : x \in CurrentValues} \cup {"self" :> y : y \in SelfValues}

\* The file before the first write: none, null, an empty object, or an object
\* with a key this version does not write.
InitialStateFiles ==
  {StateMissing, StateNull, StateJson(NoKeys), StateJson("legacy" :> V1)}

InitState ==
  /\ pc = "state"
  /\ stateFile \in InitialStateFiles
  /\ configFiles = <<>>
  /\ op = NoOp
  /\ written = NoKeys
  /\ fs = InitFs
  /\ calls = <<>>
  /\ clock = 0
  /\ agentArg = Null
  /\ cliName = Null
  /\ config = [default |-> Null, agents |-> <<>>]
  /\ state = [current |-> <<>>]
  /\ overrides = [packageOverride |-> Null, argsOverride |-> Null]
  /\ result = NoResult
  /\ NoWrapper
  /\ NoneRunning

\* One writeState call; time passes after it.
WriteState ==
  /\ pc = "state"
  /\ clock < MaxWrites
  /\ \E patch \in StatePatches :
       LET w == writeState(fs, stateFile, patch, clock)
       IN /\ fs' = w.fs
          /\ stateFile' = w.file
          /\ op' = [name |-> "writeState", patch |-> patch, before |-> stateFile,
                    threw |-> w.threw]
          /\ written' = IF w.threw THEN written ELSE patch @@ written
  /\ clock' = clock + 1
  /\ UNCHANGED <<agentArg, cliName, config, state, overrides, result, calls, pc,
                 configFiles>>
  /\ UNCHANGED wrapperVars
  /\ UNCHANGED stepVars

NextState == WriteState

SpecState == InitState /\ [][NextState]_vars

\* C14: a writeState call leaves a JSON object in which every top-level key of
\* the object it found, other than the patch's keys and updatedAt, has the
\* value it had, and the patch's keys have the patch's values; so after any
\* sequence of writes every key holds the value last written to it, current
\* and self alike.
C14_WritesMerge ==
  op.name = "writeState" =>
    /\ ~op.threw
    /\ stateFile.kind = "json"
    /\ LET previous == readState(op.before).value
           obj == stateFile.obj
       IN /\ \A k \in DOMAIN previous \ (DOMAIN op.patch \cup {"updatedAt"}) :
               k \in DOMAIN obj /\ obj[k] = previous[k]
          /\ \A k \in DOMAIN op.patch : k \in DOMAIN obj /\ obj[k] = op.patch[k]
          /\ \A k \in DOMAIN written : k \in DOMAIN obj /\ obj[k] = written[k]
          /\ obj["updatedAt"] = clock - 1

\* current, then self, then another current, on a file that held a foreign
\* key: all three keys are there.
C14_Witness ==
  /\ op.name = "writeState"
  /\ clock = 3
  /\ DOMAIN op.patch = {"current"}
  /\ op.before.kind = "json"
  /\ DOMAIN op.before.obj = {"legacy", "current", "self", "updatedAt"}
  /\ op.before.obj["current"] # op.patch["current"]
  /\ DOMAIN stateFile.obj = {"legacy", "current", "self", "updatedAt"}
  /\ stateFile.obj["self"] = op.before.obj["self"]
  /\ stateFile.obj["legacy"] = V1

----------------------------------------------------------------------------
(* loadProjectConfig over the files a user may have written *)

MaxEntries == 2

SpacedCodex == <<" ","C","o","D","e","X"," ">>
Cursor == <<"c","u","r","s","o","r">>
Blank == <<" ">>

SectionA == JObject([version |-> V2, args |-> CfgArgs])
SectionB == JObject([package |-> CfgPkg, pkg |-> StatePkg])
SectionC == JObject([pkg |-> CfgPkg])

\* The entries a top-level object is made of: sections of supported tools,
\* spelled as the user likes; a section of an unsupported tool; keys whose
\* value is not an object; a blank key; and default in four shapes.
EntryPool ==
  { <<codex, SectionA>>,
    <<codex, SectionB>>,
    <<SpacedCodex, SectionC>>,
    <<claude, SectionA>>,
    <<Cursor, SectionA>>,
    <<Cursor, JString(V1)>>,
    <<Cursor, JNull>>,
    <<codex, JString(V1)>>,
    <<Blank, SectionA>>,
    <<DefaultKey, JObject([name |-> SpacedCodex])>>,
    <<DefaultKey, JObject([name |-> Cursor])>>,
    <<DefaultKey, JString(codex)>>,
    <<DefaultKey, JObject([version |-> V2])>> }

\* An object has each key once.
DistinctKeys(entries) ==
  \A i, j \in DOMAIN entries : entries[i][1] = entries[j][1] => i = j

Docs ==
  { JDoc(es) : es \in { es \in UNION {[1..n -> EntryPool] : n \in 0..MaxEntries} :
                           DistinctKeys(es) } }

CwdContents ==
  {ValidJson(d) : d \in Docs} \cup {ValidJson(JNull), InvalidJson("Unexpected token")}

ParentContents ==
  { ValidJson(JDoc(<< <<claude, SectionA>> >>)), InvalidJson("Unexpected end") }

ConfigTrees ==
  { a @@ b : a \in {<<>>} \cup {Cwd :> c : c \in CwdContents},
             b \in {<<>>} \cup {<<Work>> :> c : c \in ParentContents} }

InitConfig ==
  /\ pc = "config"
  /\ configFiles \in ConfigTrees
  /\ stateFile = StateMissing
  /\ op = NoOp
  /\ written = NoKeys
  /\ fs = InitFs
  /\ calls = <<>>
  /\ clock = 0
  /\ agentArg = Null
  /\ cliName = Null
  /\ config = EmptyConfig
  /\ state = [current |-> <<>>]
  /\ overrides = [packageOverride |-> Null, argsOverride |-> Null]
  /\ result = NoResult
  /\ NoWrapper
  /\ NoneRunning

\* One loadProjectConfig call from the working directory.
LoadConfig ==
  /\ pc = "config"
  /\ op = NoOp
  /\ op' = [name |-> "loadProjectConfig",
            load |-> loadProjectConfig(configFiles, Cwd)]
  /\ UNCHANGED <<agentArg, cliName, config, state, overrides, result, fs, calls,
                 clock, pc, stateFile, configFiles, written>>
  /\ UNCHANGED wrapperVars
  /\ UNCHANGED stepVars

NextConfig == LoadConfig

SpecConfig == InitConfig /\ [][NextConfig]_vars

\* The directories from the working directory up to the root that hold a
\* config file, and the nearest of them.
WithConfig == {d \in DOMAIN configFiles : IsPrefix(d, Cwd)}
NearestDir == CHOOSE d \in WithConfig : \A x \in WithConfig : Len(x) <= Len(d)

\* loadProjectConfig has read a file that holds a JSON object.
LoadedObject ==
  /\ op.name = "loadProjectConfig"
  /\ WithConfig # {}
  /\ configFiles[NearestDir].kind = "json"
  /\ configFiles[NearestDir].value # JNull

TopEntries == configFiles[NearestDir].value.entries

\* The keys other than default, and those of them that are sections: the value
\* is an object and the name is not blank.
OtherKeys == {i \in DOMAIN TopEntries : TopEntries[i][1] # DefaultKey}
SectionKeys ==
  {i \in OtherKeys : IsObject(TopEntries[i][2]) /\ NamePresent(TopEntries[i][1])}

KeyName(i) == ToLowerCase(Trim(TopEntries[i][1]))

\* default is an object whose name is not a supported tool.
BadDefault ==
  \E i \in DOMAIN TopEntries :
    /\ TopEntries[i][1] = DefaultKey
    /\ IsObject(TopEntries[i][2])
    /\ "name" \in DOMAIN TopEntries[i][2].fields
    /\ TopEntries[i][2].fields.name # EmptyString
    /\ ToLowerCase(Trim(TopEntries[i][2].fields.name)) \notin SUPPORTED_AGENTS

ThrewParseError ==
  /\ op.load.threw
  /\ op.load.error.kind = "ConfigParseError"
  /\ op.load.error.path = Append(NearestDir, ConfigName)
  /\ "config" \notin DOMAIN op.load

----------------------------------------------------------------------------
(* The install, global and run commands, one after another *)

CodexAt1 == ComposeSpec(codex, V1)

\* The agent argument: none, or a tool with a version.
CommandArgs == {Null, CodexAt1}

\* The arguments after the agent on the run command line.
ExtraArgs == { << <<"-","h">> >> }

InstallOptions == {[package |-> Null], [package |-> OvPkg]}
GlobalOptions == {[package |-> Null, args |-> Null], [package |-> Null, args |-> OvArgs]}
RunOptions == {[package |-> Null]}

ProjectDoc ==
  JDoc(<< <<DefaultKey, JObject([name |-> SpacedCodex])>>, <<codex, SectionA>> >>)

\* No config file; one in the working directory; a broken one there and a good
\* one above it; one in the parent directory only.
CommandTrees ==
  { <<>>,
    Cwd :> ValidJson(ProjectDoc),
    (Cwd :> InvalidJson("Unexpected token")) @@ (<<Work>> :> ValidJson(ProjectDoc)),
    <<Work>> :> ValidJson(JDoc(<< <<claude, SectionC>> >>)) }

InitCommand ==
  /\ pc = "command"
  /\ configFiles \in CommandTrees
  /\ stateFile \in {StateMissing, StateCorrupt}
  /\ op = NoOp
  /\ written = NoKeys
  /\ fs = InitFs
  /\ calls = <<>>
  /\ clock = 0
  /\ agentArg = Null
  /\ cliName = Null
  /\ config = EmptyConfig
  /\ state = [current |-> <<>>]
  /\ overrides = [packageOverride |-> Null, argsOverride |-> Null]
  /\ result = NoResult
  /\ NoWrapper
  /\ NoneRunning

\* The command c has run: the disk, the state file and the time after it.
Done(c) ==
  LET stamped == /\ c.trace.ensure # <<>>
                 /\ c.trace.ensure[1].installs = 1
                 /\ c.trace.ensure[1].outcome = "ok"
  IN /\ stamped => clock < MaxClock
     /\ fs' = c.fs
     /\ stateFile' = c.stateFile
     /\ op' = c.trace
     /\ clock' = IF stamped THEN clock + 1 ELSE clock
     /\ UNCHANGED <<agentArg, cliName, config, state, overrides, result, calls,
                    pc, configFiles, written>>
     /\ UNCHANGED wrapperVars
     /\ UNCHANGED stepVars

Install ==
  /\ pc = "command"
  /\ \E arg \in CommandArgs, options \in InstallOptions, run \in NpmExits :
       \E c \in {installAction(fs, configFiles, stateFile, arg, options, run, clock)} :
         Done(c)

Global ==
  /\ pc = "command"
  /\ \E arg \in CommandArgs, options \in GlobalOptions, run \in NpmExits :
       \E c \in {globalAction(fs, configFiles, stateFile, arg, options, run, clock)} :
         Done(c)

Run ==
  /\ pc = "command"
  /\ \E arg \in CommandArgs, agentArgs \in ExtraArgs, options \in RunOptions,
        run \in NpmExits, layout \in {"none", "shared"}, agentRun \in NpmExits :
       \E c \in {runAction(fs, configFiles, stateFile, arg, agentArgs, options,
                            run, layout, agentRun, clock)} :
         Done(c)

NextCommand == Install \/ Global \/ Run

SpecCommand == InitCommand /\ [][NextCommand]_vars

Commands == {"install", "global", "run"}

\* The config the latest command has loaded, when it has.
LoadedConfig == op.load[1].config

\* C15 as stated: a command that finds the state file missing or not JSON does
\* not fail for it, and resolves its target as from an empty state.
C15_CorruptStateIsEmpty ==
  ( /\ op.name \in Commands
    /\ op.before.kind \in {"missing", "corrupt"}
    /\ op.failedAt # "loadProjectConfig" )
  => /\ op.failedAt # "readState"
     /\ op.resolved =
          resolveTarget(op.agentArg, LoadedConfig, [current |-> <<>>],
                        [packageOverride |-> op.options.package,
                         argsOverride |-> IF "args" \in DOMAIN op.options
                                          THEN op.options.args ELSE Null])

\* The nearest config file is not JSON.
NearestInvalid == WithConfig # {} /\ configFiles[NearestDir].kind = "invalid"

----------------------------------------------------------------------------
(* parseArgsString and parseAgentSpec over the strings a user may type *)

MaxArgLen == 4
MaxPieces == 4

ArgChars == {"a", "-", " ", "\t"}

\* The README's example: resume --flag  extra
ExampleArgs ==
  <<"r","e","s","u","m","e"," ","-","-","f","l","a","g"," "," ","e","x","t","r","a">>

ArgStrings ==
  UNION {[1..n -> ArgChars] : n \in 0..MaxArgLen} \cup {Null, ExampleArgs}

\* The concatenation of a sequence of strings.
RECURSIVE Concat(_)
Concat(pieces) ==
  IF pieces = <<>> THEN <<>> ELSE Head(pieces) \o Concat(Tail(pieces))

\* Agent specs made of a tool name, '@', a version and a space, in any order.
SpecPieces == {codex, <<"@">>, V1, <<" ">>}

SpecInputs ==
  {Concat(ps) : ps \in UNION {[1..n -> SpecPieces] : n \in 0..MaxPieces}}

ParseConfigs ==
  { EmptyConfig,
    [default |-> Null,
     agents |-> (codex :> [package |-> Null, version |-> V2, args |-> EmptyString])] }

ParseStates ==
  { [current |-> <<>>],
    [current |-> <<[name |-> codex, package |-> PkgCodex, version |-> V3,
                    args |-> EmptyString]>>] }

InitParse ==
  /\ pc = "parse"
  /\ op = NoOp
  /\ stateFile = StateMissing
  /\ configFiles = <<>>
  /\ written = NoKeys
  /\ fs = InitFs
  /\ calls = <<>>
  /\ clock = 0
  /\ agentArg = Null
  /\ cliName = Null
  /\ config = EmptyConfig
  /\ state = [current |-> <<>>]
  /\ overrides = [packageOverride |-> Null, argsOverride |-> Null]
  /\ result = NoResult
  /\ NoWrapper
  /\ NoneRunning

\* parseArgsString on one string.
ParseArgs ==
  /\ pc = "parse"
  /\ op = NoOp
  /\ \E argString \in ArgStrings :
       op' = [name |-> "parseArgsString", argString |-> argString,
              tokens |-> parseArgsString(argString)]
  /\ UNCHANGED <<agentArg, cliName, config, state, overrides, result, fs, calls,
                 clock, pc, stateFile, configFiles, written>>
  /\ UNCHANGED wrapperVars
  /\ UNCHANGED stepVars

\* parseAgentSpec on one agent spec, and resolveTarget on the same spec with a
\* project config and a global state.
ParseSpec ==
  /\ pc = "parse"
  /\ op = NoOp
  /\ \E input \in SpecInputs, cfg \in ParseConfigs, st \in ParseStates :
       /\ agentArg' = input
       /\ config' = cfg
       /\ state' = st
       /\ op' = [name |-> "parseAgentSpec", parsed |-> parseAgentSpec(input)]
       /\ result' = resolveTarget(input, cfg, st, overrides)
  /\ UNCHANGED <<cliName, overrides, fs, calls, clock, pc, stateFile,
                 configFiles, written>>
  /\ UNCHANGED wrapperVars
  /\ UNCHANGED stepVars

NextParse == ParseArgs \/ ParseSpec

SpecParse == InitParse /\ [][NextParse]_vars

\* The stretches of s between its spaces that hold more than whitespace: the
\* pairs of their first and last positions.
Stretches(s) ==
  { ab \in (1..Len(s)) \X (1..Len(s)) :
      /\ ab[1] <= ab[2]
      /\ \A k \in ab[1]..ab[2] : s[k] # " "
      /\ ab[1] = 1 \/ s[ab[1] - 1] = " "
      /\ ab[2] = Len(s) \/ s[ab[2] + 1] = " "
      /\ \E k \in ab[1]..ab[2] : s[k] \notin WhiteSpace }

\* C18: the tokens of a string are its stretches between single spaces, each
\* without the whitespace around it, in their order in the string, the empty
\* ones left out: no token is empty, none holds a space, and the README's
\* example gives resume, --flag, extra.
C18_Tokens ==
  op.name = "parseArgsString" =>
    LET s == IF op.argString = Null THEN EmptyString ELSE op.argString
        stretches == Stretches(s)
    IN /\ Len(op.tokens) = Cardinality(stretches)
       /\ \A ab \in stretches :
            op.tokens[1 + Cardinality({x \in stretches : x[1] < ab[1]})]
              = Trim(SubSeq(s, ab[1], ab[2]))
       /\ \A i \in DOMAIN op.tokens :
            /\ op.tokens[i] # EmptyString
            /\ \A k \in DOMAIN op.tokens[i] : op.tokens[i][k] # " "
       /\ op.argString = ExampleArgs =>
            op.tokens = << <<"r","e","s","u","m","e">>, <<"-","-","f","l","a","g">>,
                           <<"e","x","t","r","a">> >>

\* The README's example has been tokenized.
C18_Witness ==
  /\ op.name = "parseArgsString"
  /\ op.argString = ExampleArgs
  /\ Len(op.tokens) = 3

\* The position of the last '@' of s, 0 when it has none.
LastAt(s) ==
  IF \E i \in DOMAIN s : s[i] = "@"
  THEN CHOOSE i \in DOMAIN s : s[i] = "@" /\ \A j \in (i + 1)..Len(s) : s[j] # "@"
  ELSE 0

\* C19: with the last '@' of the trimmed spec after its first character, the
\* name is the text before it and the version the text after it, no version
\* when that text is empty; otherwise the whole spec is the name and there is
\* no version; and a spec without a version resolves to the version of the
\* lower sources: the project config's, then the state's, then latest.
C19_LastAtSplits ==
  (op.name = "parseAgentSpec" /\ Trim(agentArg) # EmptyString) =>
    LET t == Trim(agentArg)
        at == LastAt(t)
    IN /\ at > 1 =>
            /\ op.parsed.name = ToLowerCase(Trim(SubSeq(t, 1, at - 1)))
            /\ op.parsed.version =
                 IF at = Len(t) THEN Null ELSE SubSeq(t, at + 1, Len(t))
       /\ at <= 1 =>
            /\ op.parsed.name = ToLowerCase(t)
            /\ op.parsed.version = Null
       /\ (op.parsed.version = Null /\ result.kind = "target") =>
            result.target.version =
              FirstOf(Null, CfgField(result.target.name, "version"),
                      StField(result.target.name, "version"), latest)

\* codex@ resolved with a project config that pins version 2.
C19_Witness ==
  /\ op.name = "parseAgentSpec"
  /\ agentArg = codex \o <<"@">>
  /\ op.parsed = [name |-> codex, version |-> Null]
  /\ CfgField(codex, "version") = V2
  /\ result.kind = "target"
  /\ result.target.version = V2

----------------------------------------------------------------------------
(* resolveTarget when one explicit override changes *)

OverrideSpecs == {Null, codex, CodexAt1, <<"f","o","o">>}

OverrideConfigs ==
  { EmptyConfig,
    [default |-> codex,
     agents |-> (codex :> [package |-> CfgPkg, version |-> V2, args |-> CfgArgs])],
    [default |-> claude,
     agents |-> (codex :> [package |-> Null, version |-> Null, args |-> EmptyString])] }

OverrideStates ==
  { [current |-> <<>>],
    [current |-> <<[name |-> codex, package |-> StatePkg, version |-> V3,
                    args |-> StateArgs]>>] }

PackageOverrides == {Null, OvPkg, ForkPkg}
ArgsOverrides == {Null, EmptyString, OvArgs, StateArgs}

InitOverride ==
  /\ pc = "override"
  /\ agentArg \in OverrideSpecs
  /\ cliName = Null
  /\ config \in OverrideConfigs
  /\ state \in OverrideStates
  /\ overrides \in [packageOverride : PackageOverrides, argsOverride : ArgsOverrides]
  /\ result = resolveTarget(agentArg, config, state, overrides)
  /\ op = NoOp
  /\ stateFile = StateMissing
  /\ configFiles = <<>>
  /\ written = NoKeys
  /\ fs = InitFs
  /\ calls = <<>>
  /\ clock = 0
  /\ NoWrapper
  /\ NoneRunning

\* The same command line with another --package.
SetPackageOverride ==
  /\ pc = "override"
  /\ \E p \in PackageOverrides \ {overrides.packageOverride} :
       /\ overrides' = [overrides EXCEPT !.packageOverride = p]
       /\ result' = resolveTarget(agentArg, config, state, overrides')
       /\ op' = [name |-> "setPackageOverride", before |-> result]
  /\ UNCHANGED <<agentArg, cliName, config, state, fs, calls, clock, pc,
                 stateFile, configFiles, written>>
  /\ UNCHANGED wrapperVars
  /\ UNCHANGED stepVars

\* The same command line with another --args.
SetArgsOverride ==
  /\ pc = "override"
  /\ \E a \in ArgsOverrides \ {overrides.argsOverride} :
       /\ overrides' = [overrides EXCEPT !.argsOverride = a]
       /\ result' = resolveTarget(agentArg, config, state, overrides')
       /\ op' = [name |-> "setArgsOverride", before |-> result]
  /\ UNCHANGED <<agentArg, cliName, config, state, fs, calls, clock, pc,
                 stateFile, configFiles, written>>
  /\ UNCHANGED wrapperVars
  /\ UNCHANGED stepVars

NextOverride == SetPackageOverride \/ SetArgsOverride

SpecOverride == InitOverride /\ [][NextOverride]_vars

\* Two outcomes of resolveTarget that differ at most in field f of the Target.
SameBut(a, b, f) ==
  /\ a.kind = b.kind
  /\ a.kind = "error" => a = b
  /\ a.kind = "target" =>
       \A g \in {"name", "package", "version", "args"} \ {f} :
         a.target[g] = b.target[g]

\* C20: changing only the package override changes nothing of the outcome but
\* the Target's package; changing only the args override changes nothing of it
\* but the Target's args.
C20_OverridesIndependent ==
  /\ op.name = "setPackageOverride" => SameBut(result, op.before, "package")
  /\ op.name = "setArgsOverride" => SameBut(result, op.before, "args")

\* A package override given where the project config named the package, the
\* version and the args: only the package has changed.
C20_Witness ==
  /\ op.name = "setPackageOverride"
  /\ op.before.kind = "target"
  /\ op.before.target.package = CfgPkg
  /\ result.target.package = OvPkg
  /\ result.target.version = V2
  /\ result.target.args = CfgArgs
  /\ overrides.argsOverride = Null

----------------------------------------------------------------------------
(* findConfigFile over directory trees *)

Other == <<"o","t","h","e","r">>
Sub == <<"s","u","b">>

\* The directories that may hold an avm.config.json: the root, /work,
\* /work/proj, its sibling /work/other and its child /work/proj/sub.
FindDirs == {<<>>, <<Work>>, Cwd, <<Work, Other>>, <<Work, Proj, Sub>>}

\* A file is found whatever it holds.
FindContents == {ValidJson(JDoc(<<>>)), InvalidJson("Unexpected token")}

FindTrees ==
  UNION { [ds -> FindContents] : ds \in SUBSET FindDirs }

\* The directories a search starts from.
StartDirs == {<<>>, <<Work>>, Cwd, <<Work, Proj, Sub>>}

InitFind ==
  /\ pc = "find"
  /\ configFiles \in FindTrees
  /\ stateFile = StateMissing
  /\ op = NoOp
  /\ written = NoKeys
  /\ fs = InitFs
  /\ calls = <<>>
  /\ clock = 0
  /\ agentArg = Null
  /\ cliName = Null
  /\ config = EmptyConfig
  /\ state = [current |-> <<>>]
  /\ overrides = [packageOverride |-> Null, argsOverride |-> Null]
  /\ result = NoResult
  /\ NoWrapper
  /\ NoneRunning

\* One findConfigFile(startDir) call.
FindConfig ==
  /\ pc = "find"
  /\ op = NoOp
  /\ \E startDir \in StartDirs :
       op' = [name |-> "findConfigFile", startDir |-> startDir,
              found |-> findConfigFile(configFiles, startDir)]
  /\ UNCHANGED <<agentArg, cliName, config, state, overrides, result, fs, calls,
                 clock, pc, stateFile, configFiles, written>>
  /\ UNCHANGED wrapperVars
  /\ UNCHANGED stepVars

NextFind == FindConfig

SpecFind == InitFind /\ [][NextFind]_vars

\* The start directory and its ancestors that hold a config file.
Candidates == {d \in DOMAIN configFiles : IsPrefix(d, op.startDir)}

\* C29: findConfigFile always returns: the avm.config.json of the closest
\* directory, among the start directory and its ancestors up to the root, that
\* holds one, whatever more distant ancestors, siblings and children hold; and
\* nothing when none of them holds one.
C29_NearestWins ==
  op.name = "findConfigFile" =>
    IF Candidates = {}
    THEN op.found = <<>>
    ELSE /\ Len(op.found) = 1
         /\ op.found[1] \in Candidates
         /\ \A d \in Candidates : Len(d) <= Len(op.found[1])

\* A search from /work/proj that finds the file of /work, with files in the
\* root, in a sibling and in a child as well.
C29_Witness ==
  /\ op.name = "findConfigFile"
  /\ op.startDir = Cwd
  /\ DOMAIN configFiles = {<<>>, <<Work>>, <<Work, Other>>, <<Work, Proj, Sub>>}
  /\ op.found = << <<Work>> >>

----------------------------------------------------------------------------
(* findAgentBinary over the packages npm may have installed *)

PlainPkg == <<"c","o","d","e","x","-","c","l","i">>

BinPackages == {PkgCodex, PlainPkg}

\* The install path of codex@1.
Slot1 == installDir(codex, V1)

\* Declared entries: a file of the package, one written with ./ in a
\* directory of it, and one that climbs out of the installation into the
\* slot of version 2.
BinDist == <<".","/","d","i","s","t","/","c","l","i",".","j","s">>
BinStrings == {BinCli, BinDist, BinOutside}

\* parsed.bin: absent, null, a string (the empty one too), or a mapping.
BinValues ==
  {Undefined, JNull, JString(EmptyString)}
    \cup {JString(b) : b \in BinStrings}
    \cup { JDoc(<<>>),
           JDoc(<< <<codex, JNull>>, <<claude, JString(BinCli)>> >>),
           JDoc(<< <<codex, JString(BinCli)>>, <<claude, JString(BinDist)>> >>),
           JDoc(<< <<codex, JString(BinDist)>>, <<claude, JString(BinCli)>> >>) }

Descriptors ==
  {NoDescriptor, InvalidJson("Unexpected token"), ValidJson(JNull), ValidJson(JDoc(<<>>))}
    \cup {ValidJson(JDoc(<< <<BinKey, b>> >>)) : b \in BinValues}

\* The directory of the package, and where each declared entry is, for the
\* packages and entries above.
PackageDir(packageName) ==
  IF packageName = PkgCodex
  THEN Slot1 \o <<NodeModules, <<"@","o","p","e","n","a","i">>, codex>>
  ELSE Slot1 \o <<NodeModules, PlainPkg>>

EntryPath(packageName, b) ==
  IF b = BinCli THEN PackageDir(packageName) \o <<BinCli>>
  ELSE IF b = BinDist
  THEN PackageDir(packageName) \o << <<"d","i","s","t">>, BinCli >>
  ELSE IF packageName = PkgCodex
  THEN agentDir(codex) \o << V2, <<"r","u","n">> >>
  ELSE AGENTS_DIR \o << V2, <<"r","u","n">> >>

\* node_modules/.bin/<last segment of the package identifier>
SharedBin(packageName) ==
  Slot1 \o <<NodeModules, DotBin>>
        \o <<IF packageName = PkgCodex THEN codex ELSE PlainPkg>>

\* The paths that may exist: the entries, the shared binary, and a shared
\* binary under the whole identifier of the scoped package.
BinFiles(packageName) ==
  {EntryPath(packageName, b) : b \in BinStrings}
    \cup {SharedBin(packageName),
          Slot1 \o <<NodeModules, DotBin, <<"@","o","p","e","n","a","i">>, codex>>}

InitBinary ==
  /\ pc = "binary"
  /\ configFiles = <<>>
  /\ stateFile = StateMissing
  /\ op = NoOp
  /\ written = NoKeys
  /\ fs = InitFs
  /\ calls = <<>>
  /\ clock = 0
  /\ agentArg = Null
  /\ cliName = Null
  /\ config = EmptyConfig
  /\ state = [current |-> <<>>]
  /\ overrides = [packageOverride |-> Null, argsOverride |-> Null]
  /\ result = NoResult
  /\ NoWrapper
  /\ NoneRunning

\* One findAgentBinary call.
FindBinary ==
  /\ pc = "binary"
  /\ op = NoOp
  /\ \E packageName \in BinPackages, descriptor \in Descriptors :
       \E files \in SUBSET BinFiles(packageName) :
         op' = [name |-> "findAgentBinary", packageName |-> packageName,
                descriptor |-> descriptor, files |-> files,
                found |-> findAgentBinary(Package(descriptor, files), Slot1,
                                          packageName)]
  /\ UNCHANGED <<agentArg, cliName, config, state, overrides, result, fs, calls,
                 clock, pc, stateFile, configFiles, written>>
  /\ UNCHANGED wrapperVars
  /\ UNCHANGED stepVars

NextBinary == FindBinary

SpecBinary == InitBinary /\ [][NextBinary]_vars

\* The entry the descriptor declares: the bin string, or the first value of
\* the bin mapping; none when there is no descriptor that parses to an object,
\* no bin, or an empty or null one.
DeclaredEntry ==
  IF op.descriptor.kind # "json" \/ op.descriptor.value = JNull
     \/ op.descriptor.value.entries = <<>>
  THEN <<>>
  ELSE LET bin == op.descriptor.value.entries[1][2]
       IN IF bin \in {JString(b) : b \in BinStrings} THEN <<bin.s>>
          ELSE IF bin.t = "object" /\ "entries" \in DOMAIN bin /\ bin.entries # <<>>
                  /\ bin.entries[1][2] # JNull
          THEN <<bin.entries[1][2].s>>
          ELSE <<>>

SharedOrNothing ==
  IF SharedBin(op.packageName) \in op.files
  THEN <<SharedBin(op.packageName)>> ELSE <<>>

----------------------------------------------------------------------------
(* The local command over the files a user may have written *)

\* What the user may type for <agent>: a supported tool, spelled as the user
\* likes, alone, with a version, or with a trailing @.
LocalSpecs ==
  { [text |-> ComposeSpec(n, v), tool |-> ToLowerCase(Trim(n)),
     version |-> IF v = EmptyString THEN Null ELSE v] :
      n \in {codex, SpacedCodex, claude}, v \in {Null, EmptyString, V1} }

\* ... or nothing usable: an unsupported tool, or blanks.
LocalArgs == {s.text : s \in LocalSpecs} \cup {Cursor, Blank}

\* --args: not given, given empty, given.
LocalOptions == {[args |-> Null], [args |-> EmptyString], [args |-> OvArgs]}

InitLocal ==
  /\ pc = "local"
  /\ configFiles \in ConfigTrees
  /\ stateFile = StateMissing
  /\ op = NoOp
  /\ written = NoKeys
  /\ fs = InitFs
  /\ calls = <<>>
  /\ clock = 0
  /\ agentArg = Null
  /\ cliName = Null
  /\ config = EmptyConfig
  /\ state = [current |-> <<>>]
  /\ overrides = [packageOverride |-> Null, argsOverride |-> Null]
  /\ result = NoResult
  /\ NoWrapper
  /\ NoneRunning

\* One local command.
Local ==
  /\ pc = "local"
  /\ op = NoOp
  /\ \E arg \in LocalArgs, options \in LocalOptions :
       \E c \in {localAction(configFiles, arg, options)} :
         /\ configFiles' = c.configFiles
         /\ op' = c.trace
  /\ UNCHANGED <<agentArg, cliName, config, state, overrides, result, fs, calls,
                 clock, pc, stateFile, written>>
  /\ UNCHANGED wrapperVars
  /\ UNCHANGED stepVars

NextLocal == Local

SpecLocal == InitLocal /\ [][NextLocal]_vars

LocalDone == op.name = "local" /\ op.failedAt = "none"

\* What the user typed.
Given == CHOOSE s \in LocalSpecs : s.text = op.agentArg

\* The file the command is to rewrite: the nearest one it found, else the one
\* of the working directory.
BeforeWith == {d \in DOMAIN op.before : IsPrefix(d, Cwd)}
LocalTarget ==
  IF BeforeWith = {} THEN Cwd
  ELSE CHOOSE d \in BeforeWith : \A x \in BeforeWith : Len(x) <= Len(d)

\* A section's field as the file had it before, as avm reads the file, and as
\* the file has it now; an absent field and an empty one are the same.
Falsy(v) == IF Truthy(v) THEN v ELSE Null
FieldBefore(t, f) ==
  IF t \in DOMAIN op.load[1].config.agents
  THEN Falsy(op.load[1].config.agents[t][f]) ELSE Null
FieldNow(t, f) ==
  LET section == Prop(configFiles[LocalTarget].value, t)
  IN IF section = Undefined THEN Null ELSE Falsy(Field(section, f))

\* C23: a local command that succeeds rewrites the nearest avm.config.json
\* found by the upward search (the one of the working directory when there is
\* none) and no other file; in it default.name is the normalized name, the
\* named tool's version is the given version if one was given and else what
\* it was, its args are the --args value if the option was given and else
\* what they were, and every other tool's section has the package, version
\* and args avm read for it before.
C23_LocalRewrites ==
  LocalDone =>
    /\ DOMAIN configFiles = DOMAIN op.before \cup {LocalTarget}
    /\ \A d \in DOMAIN op.before \ {LocalTarget} : configFiles[d] = op.before[d]
    /\ op.wrote = <<Append(LocalTarget, ConfigName)>>
    /\ configFiles[LocalTarget].kind = "json"
    /\ Prop(configFiles[LocalTarget].value, DefaultKey) = JObject([name |-> Given.tool])
    /\ FieldNow(Given.tool, "version") =
         IF Given.version # Null THEN Given.version
         ELSE FieldBefore(Given.tool, "version")
    /\ FieldNow(Given.tool, "args") =
         IF op.options.args # Null THEN Falsy(op.options.args)
         ELSE FieldBefore(Given.tool, "args")
    /\ FieldNow(Given.tool, "package") = FieldBefore(Given.tool, "package")
    /\ \A t \in SUPPORTED_AGENTS \ {Given.tool} :
         /\ (Prop(configFiles[LocalTarget].value, t) # Undefined)
              <=> t \in DOMAIN op.load[1].config.agents
         /\ \A f \in {"package", "version", "args"} :
              FieldNow(t, f) = FieldBefore(t, f)

\* `local codex` without version or --args, where the nearest file is the one
\* of the working directory and holds a codex section with package and pkg
\* and a claude section with a version and args, and the parent directory
\* holds a file too: the sections keep their fields, default.name is codex
\* and the parent's file is as it was.
C23_Witness ==
  /\ LocalDone
  /\ op.agentArg = codex
  /\ op.options.args = Null
  /\ DOMAIN op.before = {Cwd, <<Work>>}
  /\ op.before[Cwd] = ValidJson(JDoc(<< <<codex, SectionB>>, <<claude, SectionA>> >>))
  /\ configFiles[<<Work>>] = op.before[<<Work>>]
  /\ configFiles[Cwd] # op.before[Cwd]
  /\ FieldNow(claude, "version") = V2
  /\ FieldNow(claude, "args") = CfgArgs
  /\ FieldNow(codex, "package") = CfgPkg

----------------------------------------------------------------------------
(* The run command, once, over what it may find *)

Exit2 == [event |-> "close", code |-> 2]

\* How the launched agent may end: exit code 0, exit code 2, or it cannot be
\* started.
AgentRuns == {Exit0, Exit2, SpawnError}

TwoArgs == <<"r","e","s","u","m","e"," "," ","-","-","f","a","s","t">>

\* The arguments after the agent name: none, one, two.
RunExtraArgs ==
  { <<>>, << <<"-","h">> >>, << <<"-","h">>, <<"-","v">> >> }

RunArgs == {Null, CodexAt1, Cursor}

\* No config file; one that makes codex the default and gives it two default
\* args; one that is not JSON.
RunTrees ==
  { <<>>,
    Cwd :> ValidJson(JDoc(<< <<DefaultKey, JObject([name |-> codex])>>,
                             <<codex, JObject([version |-> V1, args |-> TwoArgs])>> >>)),
    Cwd :> InvalidJson("Unexpected token") }

\* The state file: none, not JSON, or one whose current agent is codex@1 with
\* an argument.
RunStates ==
  { StateMissing, StateCorrupt,
    StateJson("current" :> [name |-> codex, package |-> PkgCodex,
                            version |-> V1, args |-> StateArgs]) }

\* The disk: nothing installed, or codex@1 installed with an argument.
RunDisks ==
  { InitFs,
    ensureInstalled(InitFs, T(codex, PkgCodex, V1, StateArgs), Exit0, 0).fs }

InitRun ==
  /\ pc = "run"
  /\ configFiles \in RunTrees
  /\ stateFile \in RunStates
  /\ fs \in RunDisks
  /\ op = NoOp
  /\ written = NoKeys
  /\ calls = <<>>
  /\ clock = 1
  /\ agentArg = Null
  /\ cliName = Null
  /\ config = EmptyConfig
  /\ state = [current |-> <<>>]
  /\ overrides = [packageOverride |-> Null, argsOverride |-> Null]
  /\ result = NoResult
  /\ NoWrapper
  /\ NoneRunning

\* One run command; what the environment did is kept with what the command
\* did.
RunOnce ==
  /\ pc = "run"
  /\ op = NoOp
  /\ \E arg \in RunArgs, agentArgs \in RunExtraArgs, run \in NpmExits,
        layout \in Layouts, agentRun \in AgentRuns :
       \E c \in {runAction(fs, configFiles, stateFile, arg, agentArgs,
                            [package |-> Null], run, layout, agentRun, clock)} :
         /\ fs' = c.fs
         /\ stateFile' = c.stateFile
         /\ op' = With(c.trace, [agentArgs |-> agentArgs, npm |-> run,
                                 layout |-> layout, agentRun |-> agentRun])
  /\ UNCHANGED <<agentArg, cliName, config, state, overrides, result, calls,
                 clock, pc, configFiles, written>>
  /\ UNCHANGED wrapperVars
  /\ UNCHANGED stepVars

NextRun == RunOnce

SpecRun == InitRun /\ [][NextRun]_vars

Launched == op.name = "run" /\ op.launched # <<>>

\* The steps before the launch, in this invocation: the project config and
\* the state file were read, resolveTarget gave a Target, and ensureInstalled
\* succeeded for that Target.
LoadedResolvedEnsured ==
  /\ op.load # <<>>
  /\ ~op.load[1].threw
  /\ op.before.kind # "corrupt"
  /\ op.resolved.kind = "target"
  /\ op.ensure # <<>>
  /\ op.ensure[1].target = op.resolved.target
  /\ op.ensure[1].outcome = "ok"
  /\ op.ensure[1].path \in DOMAIN fs
  /\ fs[op.ensure[1].path].meta = op.ensure[1].meta

\* The failures before the launch, told from what the command found: a
\* config file or a state file that cannot be read, no usable agent, an
\* installer that failed where an installation was needed, no executable.
FailedBeforeLaunch ==
  \/ (WithConfig # {} /\ configFiles[NearestDir].kind = "invalid")
  \/ op.before.kind = "corrupt"
  \/ op.resolved.kind # "target"
  \/ (op.ensure # <<>> /\ op.ensure[1].installs = 1 /\ op.npm.code # 0)
  \/ op.layout = "none"

\* C25 (amended): the launcher is invoked only after, in the same invocation,
\* both config sources were loaded, resolveTarget produced a Target and ensure
\* succeeded for it; it is handed the binary findAgentBinary located for the
\* install path ensure returned, which is under that path unless the entry the
\* package declares climbs out of it; if loading, resolution, installation or
\* binary discovery fails, the launcher is never invoked.
C25_LaunchAfterEnsure ==
  op.name = "run" =>
    /\ Launched =>
         /\ LoadedResolvedEnsured
         /\ op.layout # "outside" => IsPrefix(op.ensure[1].path, op.launched[1].bin)
         /\ op.layout = "outside" =>
              op.launched[1].bin = agentDir(codex) \o << V2, <<"r","u","n">> >>
    /\ FailedBeforeLaunch => ~Launched
    /\ Launched <=> ~FailedBeforeLaunch

\* C25 as stated: whenever the launcher is invoked, the binary it is handed
\* is under the install path that ensure returned.
C25_BinaryUnderInstallPath ==
  Launched => IsPrefix(op.ensure[1].path, op.launched[1].bin)

\* A run that installed codex@1 and launched the file its descriptor
\* declares.
C25_Witness ==
  /\ Launched
  /\ op.ensure[1].installs = 1
  /\ op.layout = "declared"
  /\ op.launched[1].bin =
       Slot1 \o <<NodeModules, <<"@","o","p","e","n","a","i">>, codex, BinCli>>

\* The k-th token of a string: its k-th stretch between spaces that holds more
\* than whitespace, trimmed.
TokenAt(s, k) ==
  LET ab == CHOOSE x \in Stretches(s) :
              Cardinality({y \in Stretches(s) : y[1] < x[1]}) = k - 1
  IN Trim(SubSeq(s, ab[1], ab[2]))

\* C26: the argument list given to the launched agent is the tokens of the
\* default args of the record ensure returned, in their order, followed by
\* the extra arguments of the command line, in theirs.
C26_DefaultArgsFirst ==
  Launched =>
    LET stored == op.ensure[1].meta[1].args
        n == Cardinality(Stretches(stored))
        given == op.launched[1].args
    IN /\ Len(given) = n + Len(op.agentArgs)
       /\ \A k \in 1..n : given[k] = TokenAt(stored, k)
       /\ \A k \in 1..Len(op.agentArgs) : given[n + k] = op.agentArgs[k]

\* The config's two default args before the two extra arguments.
C26_Witness ==
  /\ Launched
  /\ op.ensure[1].meta[1].args = TwoArgs
  /\ op.agentArgs = << <<"-","h">>, <<"-","v">> >>
  /\ op.launched[1].args =
       << <<"r","e","s","u","m","e">>, <<"-","-","f","a","s","t">>,
          <<"-","h">>, <<"-","v">> >>

----------------------------------------------------------------------------
(* The update check over a sequence of invocations *)

\* The latest time, in steps of twelve hours.
MaxTime == 4

\* How many of the latest registry queries are kept.
MaxQueries == 3

GarbageStamp == [text |-> <<"s","o","o","n">>]

\* AVM_NO_UPDATE_CHECK: unset, set to the empty string, set to 1.
NotifyEnvs ==
  { [AVM_NO_UPDATE_CHECK |-> <<>>],
    [AVM_NO_UPDATE_CHECK |-> <<EmptyString>>],
    [AVM_NO_UPDATE_CHECK |-> << <<"1">> >>] }

\* The state file before the first invocation: none, not JSON, null, one that
\* an earlier version wrote, one with a check stamped at time 0, one whose
\* stamp names no time.
NotifyStates ==
  { StateMissing, StateCorrupt, StateNull, StateJson("legacy" :> V1),
    StateJson("self" :> [lastUpdateCheck |-> toISOString(0)]),
    StateJson("self" :> [lastUpdateCheck |-> GarbageStamp, latestVersion |-> V1]) }

\* What the registry answers: nothing usable, or version 2.
Fetches == {<<>>, <<V2>>}

\* Writing the state file works, or is refused.
WriteOutcomes == {"ok", "EACCES"}

InitNotify ==
  /\ pc = "notify"
  /\ env \in NotifyEnvs
  /\ queries = <<>>
  /\ NoneRunning
  /\ stateFile \in NotifyStates
  /\ configFiles = <<>>
  /\ op = NoOp
  /\ written = NoKeys
  /\ fs = InitFs
  /\ calls = <<>>
  /\ clock = 0
  /\ agentArg = Null
  /\ cliName = Null
  /\ config = EmptyConfig
  /\ state = [current |-> <<>>]
  /\ overrides = [packageOverride |-> Null, argsOverride |-> Null]
  /\ result = NoResult

\* Twelve hours pass.
Tick ==
  /\ pc = "notify"
  /\ clock < MaxTime
  /\ clock' = clock + 1
  /\ UNCHANGED <<agentArg, cliName, config, state, overrides, result, fs, calls,
                 pc, stateFile, configFiles, op, written, env, queries, running>>

\* The queries with one more at the front, the oldest dropped when there are
\* more than MaxQueries.
Queried(q, qs) == SubSeq(<<q>> \o qs, 1, IF Len(qs) < MaxQueries THEN Len(qs) + 1
                                         ELSE MaxQueries)

\* The update check of one wrapped command.
Check ==
  /\ pc = "notify"
  /\ \E fetched \in Fetches, io \in WriteOutcomes :
       \E n \in {maybeNotifySelfUpdate(env, fs, stateFile, clock, fetched, io)} :
         /\ fs' = n.fs
         /\ stateFile' = n.stateFile
         /\ queries' = IF n.queried
                       THEN Queried([at |-> clock, stamped |-> n.stamped], queries)
                       ELSE queries
         /\ op' = [name |-> "check", before |-> stateFile, queried |-> n.queried,
                   fetched |-> fetched, io |-> io]
  /\ UNCHANGED <<agentArg, cliName, config, state, overrides, result, calls,
                 clock, pc, configFiles, written, env, running>>

\* The setCurrent of a global or run command between two checks.
SetCurrent ==
  /\ pc = "notify"
  /\ \E w \in {writeState(fs, stateFile,
                          "current" :> [name |-> codex, package |-> PkgCodex,
                                        version |-> V1, args |-> EmptyString],
                          clock)} :
       /\ fs' = w.fs
       /\ stateFile' = w.file
       /\ op' = [name |-> "setCurrent", before |-> stateFile, threw |-> w.threw]
  /\ UNCHANGED <<agentArg, cliName, config, state, overrides, result, calls,
                 clock, pc, configFiles, written, env, queries, running>>

NextNotify == Tick \/ Check \/ SetCurrent

SpecNotify == InitNotify /\ [][NextNotify]_vars

\* Two of the kept queries, the later first, are a day apart or more.
DayApart(i, j) == queries[i].at - queries[j].at >= UPDATE_CHECK_INTERVAL

----------------------------------------------------------------------------
(* One command through the CLI action wrapper *)

Stamped(t) == [lastUpdateCheck |-> toISOString(t)]

CurrentCodex1 ==
  [name |-> codex, package |-> PkgCodex, version |-> V1, args |-> StateArgs,
   installedAt |-> 0]

\* The state file: none, not JSON, one with a current agent, an entry of an
\* earlier version and a check made a day ago, one with a check made twelve
\* hours ago.
CliStates ==
  { StateMissing, StateCorrupt,
    StateJson([current |-> CurrentCodex1, self |-> Stamped(0), legacy |-> V1,
               updatedAt |-> 0]),
    StateJson([current |-> CurrentCodex1, self |-> Stamped(1), updatedAt |-> 1]) }

CliEnvs == {[AVM_NO_UPDATE_CHECK |-> <<>>], [AVM_NO_UPDATE_CHECK |-> << <<"1">> >>]}

\* --args: not given, given empty, given.
CliGlobalOptions ==
  {[package |-> Null, args |-> a] : a \in {Null, EmptyString, OvArgs}}

CliLocalArgs == {Null, CodexAt1, Cursor}

InitCli ==
  /\ pc = "cli"
  /\ env \in CliEnvs
  /\ queries = <<>>
  /\ NoneRunning
  /\ configFiles \in CommandTrees
  /\ stateFile \in CliStates
  /\ fs \in RunDisks
  /\ op = NoOp
  /\ written = NoKeys
  /\ calls = <<>>
  /\ clock = 2
  /\ agentArg = Null
  /\ cliName = Null
  /\ config = EmptyConfig
  /\ state = [current |-> <<>>]
  /\ overrides = [packageOverride |-> Null, argsOverride |-> Null]
  /\ result = NoResult

\* What the invocation found, and what its update check did.
Invoked(n, fetched, io) ==
  [invoked |-> [fs |-> fs, stateFile |-> stateFile, configFiles |-> configFiles],
   queried |-> n.queried, fetched |-> fetched, io |-> io]

\* The wrapped command went through its update check n and its handler, which
\* left h and the trace t.
Exited(n, h, t) ==
  /\ fs' = h.fs
  /\ stateFile' = h.stateFile
  /\ op' = With(t, wrapAction(t))
  /\ queries' = IF n.queried
                THEN Queried([at |-> clock, stamped |-> n.stamped], queries)
                ELSE queries
  /\ UNCHANGED <<agentArg, cliName, config, state, overrides, result, calls,
                 clock, pc, written, env, running>>

\* avm install [agent]
CliInstall ==
  /\ pc = "cli"
  /\ op = NoOp
  /\ \E arg \in CommandArgs, run \in NpmExits, fetched \in Fetches,
        io \in WriteOutcomes :
       \E n \in {maybeNotifySelfUpdate(env, fs, stateFile, clock, fetched, io)} :
         \E h \in {installAction(n.fs, configFiles, n.stateFile, arg,
                                 [package |-> Null], run, clock)} :
           /\ Exited(n, h, With(h.trace, Invoked(n, fetched, io) @@ [npm |-> run]))
           /\ UNCHANGED configFiles

\* avm local <agent>
CliLocal ==
  /\ pc = "cli"
  /\ op = NoOp
  /\ \E arg \in CliLocalArgs, options \in LocalOptions, fetched \in Fetches,
        io \in WriteOutcomes :
       \E n \in {maybeNotifySelfUpdate(env, fs, stateFile, clock, fetched, io)} :
         \E h \in {localAction(configFiles, arg, options)} :
           /\ Exited(n, [fs |-> n.fs, stateFile |-> n.stateFile],
                     With(h.trace, Invoked(n, fetched, io)))
           /\ configFiles' = h.configFiles

\* avm global [agent]
CliGlobal ==
  /\ pc = "cli"
  /\ op = NoOp
  /\ \E arg \in CommandArgs, options \in CliGlobalOptions, run \in NpmExits,
        fetched \in Fetches, io \in WriteOutcomes :
       \E n \in {maybeNotifySelfUpdate(env, fs, stateFile, clock, fetched, io)} :
         \E h \in {globalAction(n.fs, configFiles, n.stateFile, arg, options,
                                run, clock)} :
           /\ Exited(n, h, With(h.trace, Invoked(n, fetched, io) @@ [npm |-> run]))
           /\ UNCHANGED configFiles

\* avm [agent] [agentArgs...]
CliRun ==
  /\ pc = "cli"
  /\ op = NoOp
  /\ \E arg \in CommandArgs, run \in NpmExits, layout \in {"none", "declared"},
        agentRun \in AgentRuns, fetched \in Fetches, io \in WriteOutcomes :
       \E n \in {maybeNotifySelfUpdate(env, fs, stateFile, clock, fetched, io)} :
         \E h \in {runAction(n.fs, configFiles, n.stateFile, arg, <<>>,
                             [package |-> Null], run, layout, agentRun, clock)} :
           /\ Exited(n, h, With(h.trace, Invoked(n, fetched, io)
                                          @@ [npm |-> run, layout |-> layout,
                                              agentRun |-> agentRun]))
           /\ UNCHANGED configFiles

NextCli == CliInstall \/ CliLocal \/ CliGlobal \/ CliRun

SpecCli == InitCli /\ [][NextCli]_vars

\* The top-level keys and values a state file is read as holding; none for a
\* file that cannot be read.
KeysOf(sf) == IF sf.kind = "json" THEN sf.obj ELSE NoKeys

\* The state file `after` is the file `before`, but for the keys in K.
SameButFor(before, after, K) ==
  \/ after = before
  \/ /\ before.kind # "corrupt"
     /\ after.kind = "json"
     /\ \A k \in (DOMAIN KeysOf(before) \cup DOMAIN after.obj) \ K :
          /\ k \in DOMAIN KeysOf(before)
          /\ k \in DOMAIN after.obj
          /\ after.obj[k] = KeysOf(before)[k]

\* Only the update check changed the state file, and only its own entry and
\* the time of the write.
OnlyTheCheckWrote ==
  /\ stateFile = op.before
  /\ SameButFor(op.invoked.stateFile, stateFile, {"self", "updatedAt"})
  /\ stateFile # op.invoked.stateFile =>
       /\ op.queried
       /\ op.io = "ok"
       /\ stateFile.obj["self"]["lastUpdateCheck"] = toISOString(clock)
       /\ stateFile.obj["updatedAt"] = clock

\* The installation the command ensured is on the disk, with the record that
\* ensureInstalled returned, for the target that was resolved.
EnsuredOnDisk ==
  /\ op.resolved.kind = "target"
  /\ op.ensure # <<>>
  /\ op.ensure[1].outcome = "ok"
  /\ op.ensure[1].target = op.resolved.target
  /\ op.ensure[1].path \in DOMAIN fs
  /\ fs[op.ensure[1].path].meta = op.ensure[1].meta
  /\ op.ensure[1].meta[1].name = op.resolved.target.name
  /\ op.ensure[1].meta[1].package = op.resolved.target.package
  /\ op.ensure[1].meta[1].version = op.resolved.target.version

NothingInstalled ==
  /\ \A p \in DOMAIN op.invoked.fs : p \in DOMAIN fs /\ fs[p] = op.invoked.fs[p]
  /\ \A p \in DOMAIN fs \ DOMAIN op.invoked.fs :
       /\ p = AVM_HOME
       /\ fs[p].meta = <<>>
       /\ fs[p].content = [specs |-> {}, partial |-> FALSE]

\* The config files that differ from what the command found.
ConfigsChanged ==
  {d \in DOMAIN configFiles \cup DOMAIN op.invoked.configFiles :
     \/ d \notin DOMAIN configFiles
     \/ d \notin DOMAIN op.invoked.configFiles
     \/ configFiles[d] # op.invoked.configFiles[d]}

Identity(m) ==
  [name |-> m.name, package |-> m.package, version |-> m.version, args |-> m.args]

C27_ExitCodePropagates ==
  (op.name = "run" /\ op.launched # <<>> /\ op.agentRun.event = "close") =>
    op.exitCode = op.agentRun.code

----------------------------------------------------------------------------
(* ensureInstalled calls of two processes, one after the other or at once *)

\* One call at a time: codex@1 from two packages, with default args, and
\* another tool.
StepTargets ==
  { T(codex, PkgCodex, V1, EmptyString),
    T(codex, ForkPkg, V1, EmptyString),
    T(codex, PkgCodex, V1, StateArgs),
    T(claude, PkgClaude, V1, EmptyString) }

\* Calls that may overlap: codex@1 from two packages.
RaceTargets ==
  { T(codex, PkgCodex, V1, EmptyString),
    T(codex, ForkPkg, V1, EmptyString) }

\* Nothing installed, or what a failed install of codex@1 has left.
RaceDisks ==
  { InitFs, ensureInstalled(InitFs, T(codex, PkgCodex, V1, EmptyString), Exit1, 0).fs }

InitStepsAs(mode) ==
  /\ pc = mode
  /\ fs \in RaceDisks
  /\ running = [p \in Procs |-> Idle]
  /\ calls = <<>>
  /\ clock = 0
  /\ agentArg = Null
  /\ cliName = Null
  /\ config = EmptyConfig
  /\ state = [current |-> <<>>]
  /\ overrides = [packageOverride |-> Null, argsOverride |-> Null]
  /\ result = NoResult
  /\ NoCommand
  /\ NoWrapper

\* One call at a time.
InitSteps == InitStepsAs("steps")

\* Calls of the two processes may overlap.
InitRace == InitStepsAs("race")

StepFrame ==
  UNCHANGED <<agentArg, cliName, config, state, overrides, result, calls, pc,
              commandVars, wrapperVars>>

\* Process p calls ensureInstalled and gets as far as the cache test.
Look(p) ==
  /\ pc \in {"steps", "race"}
  /\ Finished(running[p])
  /\ pc = "steps" => \A q \in Procs : Finished(running[q])
  /\ \E target \in IF pc = "steps" THEN StepTargets ELSE RaceTargets,
        run \in NpmExits :
       \E l \in {LookStep(fs, target, run)} :
         /\ fs' = l.fs
         /\ running' = [running EXCEPT ![p] = l.call]
  /\ UNCHANGED clock
  /\ StepFrame

\* fs.rm(installPath, {recursive: true, force: true})
Remove(p) ==
  /\ pc \in {"steps", "race"}
  /\ running[p].at # "idle"
  /\ NextStep(running[p]) = "rm"
  /\ fs' = RmRf(fs, running[p].path)
  /\ running' = Touched(p, Stepped(running[p], "rm", "removed"),
                        running[p].path, TRUE)
  /\ UNCHANGED clock
  /\ StepFrame

\* npmInstall: mkdir -p of the path, and npm is spawned.
Spawn(p) ==
  /\ pc \in {"steps", "race"}
  /\ running[p].at # "idle"
  /\ NextStep(running[p]) = "spawn"
  /\ fs' = MkdirP(fs, running[p].path)
  /\ LET r == running[p]
     IN running' =
          [running EXCEPT ![p] =
             [Stepped(r, "spawn", "installing") EXCEPT
                !.spawned = <<NpmArgs(r.path, PkgSpec(r.target))>>]]
  /\ UNCHANGED clock
  /\ StepFrame

\* The installer ends.  When its directory was removed while it ran, an
\* installer that exits with code zero may have left only part of the package.
Close(p) ==
  /\ pc \in {"steps", "race"}
  /\ running[p].at # "idle"
  /\ NextStep(running[p]) = "close"
  /\ \E whole \in IF running[p].disturbed /\ running[p].run.code = 0
                  THEN {TRUE, FALSE} ELSE {TRUE} :
       \E npm \in {npmInstall(fs, running[p].path, PkgSpec(running[p].target),
                              running[p].run)} :
         /\ fs' = IF whole THEN npm.fs
                  ELSE [MkdirP(fs, running[p].path) EXCEPT
                          ![running[p].path].content.partial = TRUE]
         /\ running' =
              Touched(p,
                      IF npm.done.rejected
                      THEN [Stepped(running[p], "close", "threw") EXCEPT
                              !.outcome = "InstallFailure"]
                      ELSE Stepped(running[p], "close", "installed"),
                      running[p].path, FALSE)
  /\ UNCHANGED clock
  /\ StepFrame

\* writeJson(metaPath, {...target, installedAt}), and the call returns.
Write(p) ==
  /\ pc \in {"steps", "race"}
  /\ running[p].at # "idle"
  /\ NextStep(running[p]) = "write"
  /\ clock < MaxClock
  /\ LET r == running[p]
         meta == [name |-> r.target.name, package |-> r.target.package,
                  version |-> r.target.version, args |-> r.target.args,
                  installedAt |-> clock]
     IN /\ fs' = WriteMeta(fs, r.path, meta)
        /\ running' = Touched(p, [Stepped(r, "write", "returned") EXCEPT
                                    !.meta = <<meta>>, !.outcome = "ok"],
                              r.path, FALSE)
  /\ clock' = clock + 1
  /\ StepFrame

\* The cache hit: the merged record, written when it differs from the one that
\* was read, and the call returns.
Reconcile(p) ==
  /\ pc \in {"steps", "race"}
  /\ running[p].at # "idle"
  /\ NextStep(running[p]) = "reconcile"
  /\ LET r == running[p]
         mergedMeta == MergedMeta(r.existingMeta[1], r.target)
         changed == \/ mergedMeta.name # r.existingMeta[1].name
                    \/ mergedMeta.package # r.existingMeta[1].package
                    \/ mergedMeta.version # r.existingMeta[1].version
                    \/ mergedMeta.args # r.existingMeta[1].args
         done == [Stepped(r, IF changed THEN "merge" ELSE "keep", "returned")
                    EXCEPT !.meta = <<mergedMeta>>, !.outcome = "ok"]
     IN /\ fs' = IF changed THEN WriteMeta(fs, r.path, mergedMeta) ELSE fs
        /\ running' = IF changed THEN Touched(p, done, r.path, FALSE)
                      ELSE [running EXCEPT ![p] = done]
  /\ UNCHANGED clock
  /\ StepFrame

NextSteps ==
  \E p \in Procs :
    Look(p) \/ Remove(p) \/ Spawn(p) \/ Close(p) \/ Write(p) \/ Reconcile(p)

SpecSteps == InitSteps /\ [][NextSteps]_vars

SpecRace == InitRace /\ [][NextSteps]_vars

\* The installation and the record a returned call left are in place: the
\* path holds the record it returned and what the installer made of its
\* specifier, whole and nothing else.
InPlace(r) ==
  /\ r.path \in DOMAIN fs
  /\ fs[r.path].meta = r.meta
  /\ fs[r.path].content = [specs |-> {PkgSpec(r.target)}, partial |-> FALSE]

\* The steps of a cache miss, in their order.
MissOrder(r) ==
  IF r.hasInstall THEN <<"look", "rm", "spawn", "close", "write">>
  ELSE <<"look", "spawn", "close", "write">>

\* Process q makes the step that starts a call.
Looks(q) == Finished(running[q]) /\ running'[q].at = "looked"

\* C33: on a cache miss ensure removes the directory found at the path, then
\* invokes the installer once with package@version and waits for its end,
\* then writes a fresh record; the record is written only after an exit with
\* code zero, so after a failed install the path holds no record and the next
\* ensure for the slot is a miss again.
C33_MissOrder ==
  /\ [](\A p \in Procs :
          LET r == running[p]
          IN (r.at # "idle" /\ r.needsReinstall) =>
               /\ IsPrefix(r.steps, MissOrder(r))
               /\ r.spawned # <<>> =>
                    /\ r.spawned[1][3] = r.path
                    /\ r.spawned[1][7] = r.target.package \o <<"@">> \o r.target.version
               /\ r.at = "returned" =>
                    /\ r.steps = MissOrder(r)
                    /\ r.run = Exit0
                    /\ r.meta = <<r.target @@ [installedAt |-> r.meta[1].installedAt]>>
                    /\ ~r.raced => InPlace(r)
               /\ r.at = "threw" =>
                    /\ r.run.code # 0
                    /\ "write" \notin {r.steps[i] : i \in DOMAIN r.steps}
                    /\ r.steps \o <<"write">> = MissOrder(r)
                    /\ ~r.raced => fs[r.path].meta = <<>>)
  /\ [][\A p, q \in Procs :
          ( /\ Looks(q)
            /\ running[p].at = "threw"
            /\ running[p].outcome = "InstallFailure"
            /\ ~running[p].raced
            /\ running'[q].path = running[p].path )
          => /\ running'[q].needsReinstall
             /\ running'[q].hasInstall
             /\ running'[q].existingMeta = <<>>]_vars

\* A miss that removed what a failed install had left, installed and wrote
\* its record.
C33_Witness ==
  /\ running[1].at = "threw"
  /\ running[1].outcome = "InstallFailure"
  /\ running[2].at = "returned"
  /\ running[2].path = running[1].path
  /\ running[2].steps = <<"look", "rm", "spawn", "close", "write">>
  /\ InPlace(running[2])

\* The record a returned call left is at its path.
RecordInPlace(r) == r.path \in DOMAIN fs /\ fs[r.path].meta = r.meta

\* C31: nothing keeps two ensure calls for the same path apart.  A call that
\* returned successfully has its record in place, and after a miss its
\* installation too, unless a step of another call changed the path under
\* it; and such steps can come in between, so that a call has returned for a
\* path whose installation or record is missing or is the other call's.
C31_UnlockedInstallPath ==
  \A p \in Procs :
    LET r == running[p]
    IN r.at = "returned" =>
         \/ r.raced
         \/ IF r.needsReinstall THEN InPlace(r) ELSE RecordInPlace(r)

\* Process 1 has written its record and returned; process 2, which had looked
\* at the slot before that record was there, has since removed the directory.
C31_Witness ==
  /\ pc = "race"
  /\ running[1].at = "returned"
  /\ running[1].needsReinstall
  /\ running[1].meta # <<>>
  /\ running[2].at = "removed"
  /\ running[2].existingMeta = <<>>
  /\ running[2].path = running[1].path
  /\ running[1].path \notin DOMAIN fs

----------------------------------------------------------------------------
(* writeState calls of two processes, read and write apart *)

InitWriters ==
  /\ pc = "writers"
  /\ stateFile \in InitialStateFiles
  /\ running = [p \in Procs |-> Idle]
  /\ configFiles = <<>>
  /\ op = NoOp
  /\ written = NoKeys
  /\ fs = InitFs
  /\ calls = <<>>
  /\ clock = 0
  /\ agentArg = Null
  /\ cliName = Null
  /\ config = EmptyConfig
  /\ state = [current |-> <<>>]
  /\ overrides = [packageOverride |-> Null, argsOverride |-> Null]
  /\ result = NoResult
  /\ NoWrapper

\* writeState(patch), first half: previous = (await readJson(STATE_FILE, {})) || {}
ReadPrevious(p) ==
  /\ pc = "writers"
  /\ Finished(running[p]) \/ running[p].at = "written"
  /\ \E patch \in StatePatches :
       \E read \in {readState(stateFile)} :
         running' = [running EXCEPT ![p] =
                       IF read.threw
                       THEN [at |-> "threw", patch |-> patch, previous |-> NoKeys,
                             missed |-> NoKeys, wrote |-> <<>>]
                       ELSE [at |-> "read", patch |-> patch,
                             previous |-> read.value, missed |-> NoKeys,
                             wrote |-> <<>>]]
  /\ UNCHANGED <<agentArg, cliName, config, state, overrides, result, fs, calls,
                 clock, pc, commandVars, wrapperVars>>

\* writeState(patch), second half: writeJson(STATE_FILE, next).  Every other
\* call that has read and not yet written has missed what this one writes.
WriteNext(p) ==
  /\ pc = "writers"
  /\ running[p].at = "read"
  /\ clock < MaxWrites
  /\ \E next \in {MergeWrite(stateFile, running[p].previous, running[p].patch,
                             clock)} :
       /\ stateFile' = next
       /\ fs' = MkdirP(fs, AVM_HOME)
       /\ running' =
            [q \in Procs |->
               IF q = p THEN [running[p] EXCEPT !.at = "written", !.wrote = <<next>>]
               ELSE IF running[q].at = "read"
               THEN [running[q] EXCEPT !.missed = running[p].patch @@ @]
               ELSE running[q]]
  /\ clock' = clock + 1
  /\ UNCHANGED <<agentArg, cliName, config, state, overrides, result, calls, pc,
                 configFiles, op, written, wrapperVars>>

NextWriters == \E p \in Procs : ReadPrevious(p) \/ WriteNext(p)

SpecWriters == InitWriters /\ [][NextWriters]_vars

\* The keys another writer wrote between the read and the write of the call
\* r, and that r's own patch does not write.
LostKeys(r) == DOMAIN r.missed \ DOMAIN r.patch

\* C32: writeState writes back the whole object it read, with its patch and
\* updatedAt on top: what another writer wrote to the state file between the
\* read and the write, under a key the patch does not name, is not in the
\* file after the write, which has that key as it was read.
C32_StaleReadWins ==
  \A p \in Procs :
    LET r == running[p]
    IN r.at = "written" =>
         /\ DOMAIN r.wrote[1].obj = DOMAIN r.previous \cup DOMAIN r.patch \cup {"updatedAt"}
         /\ \A k \in DOMAIN r.patch : r.wrote[1].obj[k] = r.patch[k]
         /\ \A k \in DOMAIN r.previous \ (DOMAIN r.patch \cup {"updatedAt"}) :
              r.wrote[1].obj[k] = r.previous[k]
         /\ \A k \in LostKeys(r) :
              IF k \in DOMAIN r.previous
              THEN r.wrote[1].obj[k] = r.previous[k]
              ELSE k \notin DOMAIN r.wrote[1].obj

\* Process 2 wrote current between process 1's read and process 1's write of
\* self: the file holds self and no current.
C32_Witness ==
  /\ running[1].at = "written"
  /\ running[2].at = "written"
  /\ DOMAIN running[1].patch = {"self"}
  /\ DOMAIN running[2].patch = {"current"}
  /\ "current" \in LostKeys(running[1])
  /\ stateFile = running[1].wrote[1]
  /\ "current" \notin DOMAIN stateFile.obj
  /\ "self" \in DOMAIN stateFile.obj

\* The records on the disk f, with the paths that hold them.
RecordsOn(f) == {p \in DOMAIN f : f[p].meta # <<>>}

\* C34: after every successful ensure, on a miss or on a hit, the record
\* returned is the record persisted at the returned path, and its name,
\* package and version are the target's; so every record on the disk is held
\* by the path of its own name and version.
C34_ReturnedIsPersisted ==
  /\ (calls # <<>> /\ Last.outcome = "ok") =>
       /\ Last.path \in DOMAIN fs
       /\ fs[Last.path].meta = Last.meta
       /\ Last.meta[1].name = Last.target.name
       /\ Last.meta[1].package = Last.target.package
       /\ Last.meta[1].version = Last.target.version
  /\ \A p \in RecordsOn(fs) :
       p = installDir(fs[p].meta[1].name, fs[p].meta[1].version)

\* A hit that took the target's default args into the stored record and
\* returned it.
C34_Witness ==
  /\ Len(calls) = 2
  /\ Last.outcome = "ok"
  /\ Last.installs = 0
  /\ Last.wrote
  /\ Last.existingMeta[1].args = EmptyString
  /\ Last.meta[1].args = StateArgs
  /\ fs[Last.path].meta = Last.meta

\* The target t is what resolveTarget returns for the agent spec name@version
\* on the command line, with --package and --args for its package and args.
FromCliSpec(t) ==
  LET res == resolveTarget(ComposeSpec(t.name, t.version), EmptyConfig,
                           [current |-> <<>>],
                           [packageOverride |-> t.package,
                            argsOverride |-> IF t.args = EmptyString THEN Null
                                             ELSE t.args])
  IN res.kind = "target" /\ res.target = t

\* The path is a direct child of the tool's directory under the agents root.
DirectChild(path, name) ==
  /\ IsPrefix(agentDir(name), path)
  /\ Len(path) = Len(agentDir(name)) + 1

\* C35 as stated: for every Target that resolveTarget can produce from a
\* cliSpec, the install path ensure computes is a direct child of the tool's
\* directory, so that a removal stays inside that directory, and distinct
\* (name, version) pairs never share an install path.
C35_PathIsDirectChild ==
  /\ (calls # <<>> /\ FromCliSpec(Last.target)) =>
       DirectChild(Last.path, Last.target.name)
  /\ ( /\ Len(calls) = 2
       /\ FromCliSpec(Last.target)
       /\ FromCliSpec(Prev.target)
       /\ ~SameSlot(Prev.target, Last.target) )
     => Prev.path # Last.path

\* C35, its second half alone: distinct (name, version) pairs never share an
\* install path.
C35_PairsNeverShare ==
  ( /\ Len(calls) = 2
    /\ FromCliSpec(Last.target)
    /\ FromCliSpec(Prev.target)
    /\ ~SameSlot(Prev.target, Last.target) )
  => Prev.path # Last.path

\* The removal of a miss took the agents root with every installation in it.
C35_RemovedAgentsRoot ==
  /\ Len(calls) = 2
  /\ Prev.outcome = "ok"
  /\ Prev.target = T(claude, PkgClaude, V1, EmptyString)
  /\ FromCliSpec(Last.target)
  /\ Last.target.version = DotDot
  /\ Last.path = AGENTS_DIR
  /\ Last.removed
  /\ Prev.path \notin DOMAIN fs

\* The state file names a global default.
CurrentSet == stateFile.kind = "json" /\ "current" \in DOMAIN stateFile.obj

\* The install path state.current points to.
PointedSlot ==
  installDir(stateFile.obj["current"].name, stateFile.obj["current"].version)

\* The store holds a record at the slot of state.current, with the package
\* and the args of state.current.
CurrentAgrees ==
  /\ PointedSlot \in DOMAIN fs
  /\ fs[PointedSlot].meta # <<>>
  /\ fs[PointedSlot].meta[1].package = stateFile.obj["current"].package
  /\ fs[PointedSlot].meta[1].args = stateFile.obj["current"].args

C36_StaleCurrent ==
  /\ op.name = "install"
  /\ CurrentSet
  /\ stateFile.obj["current"].package = PkgCodex
  /\ PointedSlot \in DOMAIN fs
  /\ fs[PointedSlot].meta # <<>>
  /\ fs[PointedSlot].meta[1].package = OvPkg

\* C38: the run command writes state.current before it looks for the binary
\* and before it launches the agent.  A run that fails in loading the config
\* or the state, in resolveTarget or in ensureInstalled leaves the state file
\* as it found it; a run that fails because no executable is found, or whose
\* agent exits non-zero, has already replaced state.current with the record
\* ensure returned.
C38_CurrentBeforeLaunch ==
  op.name = "run" =>
    /\ op.failedAt \in {"loadProjectConfig", "readState", "resolveTarget",
                        "ensureInstalled"} =>
         /\ ~op.wroteState
         /\ stateFile = op.before
    /\ op.failedAt \in {"findAgentBinary", "runCommand"} =>
         /\ op.wroteState
         /\ op.ensure # <<>>
         /\ op.ensure[1].outcome = "ok"
         /\ stateFile.kind = "json"
         /\ "current" \in DOMAIN stateFile.obj
         /\ stateFile.obj["current"] = op.ensure[1].meta[1]
         /\ (op.failedAt = "findAgentBinary") = (op.launched = <<>>)

\* A run found a state.current without installedAt, had its target ensured,
\* found no executable in the package and failed: state.current is the record
\* ensure returned.
C38_Witness ==
  /\ op.name = "run"
  /\ op.failedAt = "findAgentBinary"
  /\ op.before.kind = "json"
  /\ "current" \in DOMAIN op.before.obj
  /\ stateFile.kind = "json"
  /\ stateFile.obj["current"] # op.before.obj["current"]
  /\ stateFile.obj["current"] = op.ensure[1].meta[1]

\* A run whose agent exited non-zero has replaced state.current all the same.
C38_AgentFailed ==
  /\ op.name = "run"
  /\ op.failedAt = "runCommand"
  /\ op.before.kind = "missing"
  /\ stateFile.kind = "json"
  /\ stateFile.obj["current"] = op.ensure[1].meta[1]

----------------------------------------------------------------------------
(* Default args in the store under commands that hit the cache *)

\* --args absent, given as the empty string, given with a value.
StickyArgsOptions == {Null, EmptyString, OvArgs}

\* No config file, or one whose codex section has the empty string for args.
StickyTrees ==
  { <<>>,
    Cwd :> ValidJson(JDoc(<< <<codex, JObject([version |-> V1,
                                               args |-> EmptyString])>> >>)) }

\* Nothing installed, or codex@1 installed with default args.
StickyDisks ==
  { InitFs,
    ensureInstalled(InitFs, T(codex, PkgCodex, V1, StateArgs), Exit0, 0).fs }

InitSticky ==
  /\ pc = "sticky"
  /\ configFiles \in StickyTrees
  /\ stateFile = StateMissing
  /\ fs \in StickyDisks
  /\ op = NoOp
  /\ written = NoKeys
  /\ calls = <<>>
  /\ clock = 1
  /\ agentArg = Null
  /\ cliName = Null
  /\ config = EmptyConfig
  /\ state = [current |-> <<>>]
  /\ overrides = [packageOverride |-> Null, argsOverride |-> Null]
  /\ result = NoResult
  /\ NoWrapper
  /\ NoneRunning

StickyInstall ==
  /\ pc = "sticky"
  /\ \E arg \in CommandArgs, options \in InstallOptions, run \in NpmExits :
       \E c \in {installAction(fs, configFiles, stateFile, arg, options, run, clock)} :
         Done(c)

StickyGlobal ==
  /\ pc = "sticky"
  /\ \E arg \in CommandArgs, package \in {Null, OvPkg}, args \in StickyArgsOptions,
        run \in NpmExits :
       \E c \in {globalAction(fs, configFiles, stateFile, arg,
                              [package |-> package, args |-> args], run, clock)} :
         Done(c)

StickyRun ==
  /\ pc = "sticky"
  /\ \E arg \in CommandArgs, run \in NpmExits :
       \E c \in {runAction(fs, configFiles, stateFile, arg, <<>>,
                            [package |-> Null], run, "shared", Exit0, clock)} :
         Done(c)

NextSticky == StickyInstall \/ StickyGlobal \/ StickyRun

SpecSticky == InitSticky /\ [][NextSticky]_vars

\* The paths whose record holds non-empty default args.
WithStoredArgs(f) == {p \in RecordsOn(f) : f[p].meta[1].args # EmptyString}

C37_ClearedByReinstall ==
  /\ op.name = "install"
  /\ op.ensure # <<>>
  /\ op.ensure[1].installs = 1
  /\ op.ensure[1].outcome = "ok"
  /\ op.ensure[1].existingMeta # <<>>
  /\ op.ensure[1].existingMeta[1].args = StateArgs
  /\ fs[op.ensure[1].path].meta[1].args = EmptyString

\* C39: for the version "latest", ensureInstalled is a cache hit whenever the
\* latest slot holds a record with the same package: npm is not run, nothing
\* is removed and the content of the slot is what it was, however an installer
\* would have ended; the slot is reinstalled only when the package asked for
\* differs from the record's.
C39_LatestNeverRefreshed ==
  [][ ( /\ calls' # <<>>
        /\ calls' # calls
        /\ calls'[1].target.version = latest
        /\ calls'[1].path \in RecordsOn(fs)
        /\ fs[calls'[1].path].meta[1].version = latest )
      => IF fs[calls'[1].path].meta[1].package = calls'[1].target.package
         THEN /\ calls'[1].outcome = "ok"
              /\ calls'[1].installs = 0
              /\ calls'[1].run = <<>>
              /\ ~calls'[1].removed
              /\ calls'[1].path \in DOMAIN fs'
              /\ fs'[calls'[1].path].content = fs[calls'[1].path].content
              /\ fs'[calls'[1].path].meta[1].installedAt =
                   fs[calls'[1].path].meta[1].installedAt
         ELSE calls'[1].installs = 1 /\ calls'[1].removed
    ]_vars

\* codex@latest was installed at time 0; a later call for codex@latest, after
\* another installation has moved the clock, is a hit on the record of time 0.
C39_Witness ==
  /\ Len(calls) = 2
  /\ Prev.target = T(codex, PkgCodex, latest, EmptyString)
  /\ Prev.outcome = "ok"
  /\ Prev.installs = 0
  /\ Last.target = T(codex, PkgCodex, latest, EmptyString)
  /\ Last.outcome = "ok"
  /\ Last.installs = 0
  /\ clock = MaxClock
  /\ Last.meta[1].installedAt = 0
  /\ fs[Last.path].meta = Last.meta

====
